---- MODULE Spec2Model ----
(***************************************************************************)
(* Authorization and session core of the lem backend: the JWT codec and    *)
(* the two claim schemas (end-user TokenClaims, AdminClaims), the request  *)
(* middleware (APIKeyAuth, JWTAuth, RequireAdmin), the auth service, and    *)
(* the organization service with its transactions.                         *)
(*                                                                         *)
(* Ten specifications share the variables:                                 *)
(*   SpecToken   the validation functions applied to one presented token   *)
(*   SpecGate    the middleware chain in front of the store of apps/users  *)
(*   SpecOrg     OrganizationService.Create and the admin console's create *)
(*   SpecInvite  invitations: create, accept (statement by statement),     *)
(*               revoke                                                    *)
(*   SpecManage  the handlers of the organization routes, with responses   *)
(*   SpecRefresh a client refreshing with a token it keeps                 *)
(*   SpecAllow   the admin allowlist and the Google sign-in of the console *)
(*   SpecLink    signup, password login and device login with UserApp rows *)
(*   SpecTeam    SpecInvite's steps, from an organization with an ADMIN    *)
(*   SpecCross   member and invitation handlers with two organizations     *)
(***************************************************************************)
EXTENDS Integers, FiniteSets, Sequences, TLC

VARIABLES
    now,          \* wall clock (time.Now), in abstract ticks
    apps,         \* App table: id -> [api_key, is_active]
    users,        \* User table: id -> [exists, is_active, password_hash]
    userApps,     \* UserApp table: <<user, app>> -> number of rows
    cfg,          \* config.Config: [AdminEmails]
    tok,          \* SpecToken: the token string presented to the validators
    session,      \* SpecGate: the AuthResponse last handed to the client
    resp,         \* outcome of the request (or validator call) just handled
    orgs,         \* Organization table (committed rows)
    members,      \* OrganizationMember table (committed rows)
    invitations,  \* OrganizationInvitation table (committed rows)
    nextId,       \* id sequences of the three organization tables
    procs         \* in-flight organization-service calls, one per worker

vars == <<now, apps, users, userApps, cfg, tok, session, resp, orgs, members, invitations, nextId, procs>>

authVars == <<apps, users, userApps, cfg, tok, session, resp>>
orgVars == <<orgs, members, invitations, nextId, procs>>

----------------------------------------------------------------------------
(* Bounds *)

MaxTime == 3        \* the clock runs over 0..MaxTime
AccessTTL == 1      \* cfg.AccessTokenDuration(), in ticks
RefreshTTL == 2     \* cfg.RefreshTokenDuration(), in ticks
AdminTTL == 2       \* AdminTokenExpireHours, in ticks
InviteTTL == 1      \* lifetime of an invitation (7 days), in ticks
MaxOrgs == 2        \* organization ids handed out

Times == 0..MaxTime
AppIds == {1, 2}
UserIds == {1, 2}

----------------------------------------------------------------------------
(* JWT codec (golang-jwt/v5 as used by the middleware).                    *)
(* A token string is modelled by its three parts: the header algorithm,    *)
(* the key its signature was computed with, and its JSON payload.  A JSON  *)
(* payload lists every key the two schemas know; AbsentInt / AbsentStr     *)
(* mark a key that is not present in the JSON object.                      *)

JWTSecretKey == "S"
AbsentInt == -1
AbsentStr == "_absent"

EmptyPayload ==
    [user_id |-> AbsentInt, app_id |-> AbsentInt, org_id |-> AbsentInt,
     org_role |-> AbsentStr, type |-> AbsentStr, email |-> AbsentStr,
     name |-> AbsentStr, exp |-> AbsentInt, iat |-> AbsentInt]

\* `json:",omitempty"`: the zero value is left out of the object
OmitEmptyInt(v) == IF v = 0 THEN AbsentInt ELSE v
OmitEmptyStr(v) == IF v = "" THEN AbsentStr ELSE v
\* json.Unmarshal into a struct field: a missing key leaves the zero value
DecodeInt(v) == IF v = AbsentInt THEN 0 ELSE v
DecodeStr(v) == IF v = AbsentStr THEN "" ELSE v

\* json.Marshal(TokenClaims)
MarshalTokenClaims(c) ==
    [EmptyPayload EXCEPT
        !.user_id = OmitEmptyInt(c.user_id),
        !.app_id = OmitEmptyInt(c.app_id),
        !.org_id = OmitEmptyInt(c.org_id),
        !.org_role = OmitEmptyStr(c.org_role),
        !.type = c.type,
        !.exp = c.exp,
        !.iat = c.iat]

\* json.Unmarshal(payload, &TokenClaims{}): unknown keys are ignored
UnmarshalTokenClaims(p) ==
    [user_id |-> DecodeInt(p.user_id), app_id |-> DecodeInt(p.app_id),
     org_id |-> DecodeInt(p.org_id), org_role |-> DecodeStr(p.org_role),
     type |-> DecodeStr(p.type), exp |-> p.exp, iat |-> p.iat]

\* json.Marshal(AdminClaims)
MarshalAdminClaims(c) ==
    [EmptyPayload EXCEPT
        !.email = c.email,
        !.name = OmitEmptyStr(c.name),
        !.type = c.type,
        !.exp = c.exp,
        !.iat = c.iat]

\* json.Unmarshal(payload, &AdminClaims{})
UnmarshalAdminClaims(p) ==
    [email |-> DecodeStr(p.email), name |-> DecodeStr(p.name),
     type |-> DecodeStr(p.type), exp |-> p.exp, iat |-> p.iat]

\* jwt.NewWithClaims(jwt.SigningMethodHS256, claims).SignedString(secret)
SignedString(payload, secret) ==
    [alg |-> "HS256", key |-> secret, payload |-> payload]

HMACAlgs == {"HS256", "HS384", "HS512"}

\* The Keyfunc both validators pass to jwt.ParseWithClaims
KeyfuncAccepts(t) == t.alg \in HMACAlgs

\* jwt.ParseWithClaims up to token.Valid: known method, Keyfunc, signature,
\* then the registered-claims validator (exp only when present).
ParseError(t, secret, at) ==
    IF ~KeyfuncAccepts(t) THEN "unexpected signing method"
    ELSE IF t.key # secret THEN "signature is invalid"
    ELSE IF t.payload.exp # AbsentInt /\ ~(at < t.payload.exp) THEN "token is expired"
    ELSE ""

NoClaims ==
    [user_id |-> 0, app_id |-> 0, org_id |-> 0, org_role |-> "",
     type |-> "", exp |-> AbsentInt, iat |-> AbsentInt]
NoAdminClaims ==
    [email |-> "", name |-> "", type |-> "", exp |-> AbsentInt, iat |-> AbsentInt]

----------------------------------------------------------------------------
(* End-user session authority (AuthMiddleware) *)

GenerateAccessToken(userID, appID, orgID, orgRole, at) ==
    SignedString(MarshalTokenClaims(
        [user_id |-> userID, app_id |-> appID, org_id |-> orgID,
         org_role |-> orgRole, type |-> "access",
         exp |-> at + AccessTTL, iat |-> at]), JWTSecretKey)

GenerateRefreshToken(userID, appID, orgID, at) ==
    SignedString(MarshalTokenClaims(
        [user_id |-> userID, app_id |-> appID, org_id |-> orgID,
         org_role |-> "", type |-> "refresh",
         exp |-> at + RefreshTTL, iat |-> at]), JWTSecretKey)

\* ValidateToken: [err, claims]
ValidateToken(t, at) ==
    LET e == ParseError(t, JWTSecretKey, at) IN
    IF e # "" THEN [err |-> e, claims |-> NoClaims]
    ELSE [err |-> "", claims |-> UnmarshalTokenClaims(t.payload)]

----------------------------------------------------------------------------
(* Admin session authority (AdminAuthMiddleware) *)

CreateAdminToken(email, name, at) ==
    SignedString(MarshalAdminClaims(
        [email |-> email, name |-> name, type |-> "admin_session",
         exp |-> at + AdminTTL, iat |-> at]), JWTSecretKey)

\* ValidateAdminToken without the comparison of claims.Type
ValidateAdminToken_NoTypeCheck(t, at) ==
    LET e == ParseError(t, JWTSecretKey, at)
        c == UnmarshalAdminClaims(t.payload) IN
    IF e # "" THEN [err |-> e, claims |-> NoAdminClaims]
    ELSE [err |-> "", claims |-> c]

\* ValidateAdminToken: [err, claims]
ValidateAdminToken(t, at) ==
    LET e == ParseError(t, JWTSecretKey, at)
        c == UnmarshalAdminClaims(t.payload) IN
    IF e # "" THEN [err |-> e, claims |-> NoAdminClaims]
    ELSE IF c.type # "admin_session" THEN [err |-> "invalid token type", claims |-> NoAdminClaims]
    ELSE [err |-> "", claims |-> c]

----------------------------------------------------------------------------
(* Store rows and request/response records *)

\* API keys are character sequences, so that equality, prefix and partial
\* matches are different relations.
Key1 == <<"k", "1">>
Key2 == <<"k", "2">>
APIKeyOf(a) == IF a = 1 THEN Key1 ELSE Key2
RequestKeys == {<<>>, <<"k">>, Key1, Key2, <<"k", "1", "x">>}

NoToken == [alg |-> "", key |-> "", payload |-> EmptyPayload]
NoSession == [access |-> NoToken, refresh |-> NoToken]
NoHeader == [scheme |-> "", nparts |-> 0, tok |-> NoToken]

\* strings.ToLower on the scheme words and e-mail addresses that occur
ToLower(s) ==
    CASE s = "Bearer" -> "bearer"
      [] s = "BEARER" -> "bearer"
      [] s = "Basic" -> "basic"
      [] s = "Ops@Lem" -> "ops@lem"
      [] s = "OPS@LEM" -> "ops@lem"
      [] s = "Eve@lem" -> "eve@lem"
      [] OTHER -> s

\* cfg.AdminEmails as getEnvSlice returns it when ADMIN_EMAILS is not set
NoConfig == [AdminEmails |-> <<>>]

\* UserApp rows of a User table whose users were each created under App 1:
\* one row for the user and that app (Signup and DeviceLogin insert it with
\* the user)
LinksAtCreation(us) ==
    [p \in (DOMAIN us) \X AppIds |-> IF us[p[1]].exists /\ p[2] = 1 THEN 1 ELSE 0]

UserExists(us, id) == id \in DOMAIN us /\ us[id].exists

NoResp ==
    [op |-> "none", key |-> <<>>, hdr |-> NoHeader, stage |-> "none",
     status |-> 0, error |-> "", app |-> 0, user |-> 0, claims |-> NoClaims,
     admin |-> NoAdminClaims, out |-> NoSession, org |-> 0, body |-> {},
     cookie |-> NoToken, email |-> ""]

----------------------------------------------------------------------------
(* Request authorization middleware *)

IsPrefix(p, q) == Len(p) <= Len(q) /\ SubSeq(q, 1, Len(p)) = p

\* mutant: the lookup matches on a key prefix (LIKE 'key%')
AppsByAPIKey_Prefix(as, apiKey) == {a \in DOMAIN as : IsPrefix(apiKey, as[a].api_key)}

\* client.App.Query().Where(app.APIKey(apiKey)): equality on the column
AppsByAPIKey(as, apiKey) == {a \in DOMAIN as : as[a].api_key = apiKey}

\* APIKeyAuth: [status, error, app]; status 200 stands for c.Next()
APIKeyAuth(as, apiKey) ==
    IF apiKey = <<>> THEN
        [status |-> 401, error |-> "API key required", app |-> 0]
    ELSE IF AppsByAPIKey(as, apiKey) = {} THEN
        [status |-> 401, error |-> "Invalid API key", app |-> 0]
    ELSE LET a == CHOOSE x \in AppsByAPIKey(as, apiKey) : TRUE IN
        IF ~as[a].is_active THEN
            [status |-> 403, error |-> "App is disabled", app |-> 0]
        ELSE [status |-> 200, error |-> "", app |-> a]

\* mutant: the claims.Type check is missing
JWTAuth_NoKindCheck(us, hdr, at) ==
    LET v == ValidateToken(hdr.tok, at) IN
    IF hdr.nparts = 0 THEN
        [status |-> 401, error |-> "Authorization header required", user |-> 0, claims |-> NoClaims]
    ELSE IF hdr.nparts # 2 \/ ToLower(hdr.scheme) # "bearer" THEN
        [status |-> 401, error |-> "Invalid authorization format", user |-> 0, claims |-> NoClaims]
    ELSE IF v.err # "" THEN
        [status |-> 401, error |-> "Invalid token", user |-> 0, claims |-> NoClaims]
    ELSE IF ~UserExists(us, v.claims.user_id) THEN
        [status |-> 401, error |-> "User not found", user |-> 0, claims |-> NoClaims]
    ELSE IF ~us[v.claims.user_id].is_active THEN
        [status |-> 403, error |-> "User is disabled", user |-> 0, claims |-> NoClaims]
    ELSE [status |-> 200, error |-> "", user |-> v.claims.user_id, claims |-> v.claims]

\* mutant: the user.IsActive check is missing
JWTAuth_NoActiveCheck(us, hdr, at) ==
    LET v == ValidateToken(hdr.tok, at) IN
    IF hdr.nparts = 0 THEN
        [status |-> 401, error |-> "Authorization header required", user |-> 0, claims |-> NoClaims]
    ELSE IF hdr.nparts # 2 \/ ToLower(hdr.scheme) # "bearer" THEN
        [status |-> 401, error |-> "Invalid authorization format", user |-> 0, claims |-> NoClaims]
    ELSE IF v.err # "" THEN
        [status |-> 401, error |-> "Invalid token", user |-> 0, claims |-> NoClaims]
    ELSE IF v.claims.type # "access" THEN
        [status |-> 401, error |-> "Invalid token type", user |-> 0, claims |-> NoClaims]
    ELSE IF ~UserExists(us, v.claims.user_id) THEN
        [status |-> 401, error |-> "User not found", user |-> 0, claims |-> NoClaims]
    ELSE [status |-> 200, error |-> "", user |-> v.claims.user_id, claims |-> v.claims]

\* JWTAuth: [status, error, user, claims]; status 200 stands for c.Next()
JWTAuth(us, hdr, at) ==
    LET v == ValidateToken(hdr.tok, at) IN
    IF hdr.nparts = 0 THEN
        [status |-> 401, error |-> "Authorization header required", user |-> 0, claims |-> NoClaims]
    ELSE IF hdr.nparts # 2 \/ ToLower(hdr.scheme) # "bearer" THEN
        [status |-> 401, error |-> "Invalid authorization format", user |-> 0, claims |-> NoClaims]
    ELSE IF v.err # "" THEN
        [status |-> 401, error |-> "Invalid token", user |-> 0, claims |-> NoClaims]
    ELSE IF v.claims.type # "access" THEN
        [status |-> 401, error |-> "Invalid token type", user |-> 0, claims |-> NoClaims]
    ELSE IF ~UserExists(us, v.claims.user_id) THEN
        [status |-> 401, error |-> "User not found", user |-> 0, claims |-> NoClaims]
    ELSE IF ~us[v.claims.user_id].is_active THEN
        [status |-> 403, error |-> "User is disabled", user |-> 0, claims |-> NoClaims]
    ELSE [status |-> 200, error |-> "", user |-> v.claims.user_id, claims |-> v.claims]

\* mutant: a token that does not validate aborts the request, as in JWTAuth
OptionalJWTAuth_Reject(us, hdr, at) ==
    LET v == ValidateToken(hdr.tok, at)
        skip == [status |-> 200, error |-> "", user |-> 0, claims |-> NoClaims]
    IN
    IF hdr.nparts = 0 THEN skip
    ELSE IF hdr.nparts # 2 \/ ToLower(hdr.scheme) # "bearer" THEN skip
    ELSE IF v.err # "" THEN
        [status |-> 401, error |-> "Invalid token", user |-> 0, claims |-> NoClaims]
    ELSE IF v.claims.type # "access" THEN skip
    ELSE IF ~UserExists(us, v.claims.user_id) THEN skip
    ELSE IF ~us[v.claims.user_id].is_active THEN skip
    ELSE [status |-> 200, error |-> "", user |-> v.claims.user_id, claims |-> v.claims]

\* OptionalJWTAuth: [status, error, user, claims]; every path ends in
\* c.Next(), status 200
OptionalJWTAuth(us, hdr, at) ==
    LET v == ValidateToken(hdr.tok, at)
        skip == [status |-> 200, error |-> "", user |-> 0, claims |-> NoClaims]
    IN
    IF hdr.nparts = 0 THEN skip
    ELSE IF hdr.nparts # 2 \/ ToLower(hdr.scheme) # "bearer" THEN skip
    ELSE IF v.err # "" THEN skip
    ELSE IF v.claims.type # "access" THEN skip
    ELSE IF ~UserExists(us, v.claims.user_id) THEN skip
    ELSE IF ~us[v.claims.user_id].is_active THEN skip
    ELSE [status |-> 200, error |-> "", user |-> v.claims.user_id, claims |-> v.claims]

\* RequireAdmin on the admin_session cookie: [status, error, admin]
RequireAdmin(cookie, at) ==
    LET v == ValidateAdminToken(cookie, at) IN
    IF cookie = NoToken THEN
        [status |-> 401, error |-> "Admin authentication required", admin |-> NoAdminClaims]
    ELSE IF v.err # "" THEN
        [status |-> 401, error |-> "Invalid or expired admin session", admin |-> NoAdminClaims]
    ELSE [status |-> 200, error |-> "", admin |-> v.claims]

\* IsAdminEmail comparing the e-mail as given
IsAdminEmail_CaseSensitive(c, email) ==
    IF Len(c.AdminEmails) = 0 THEN FALSE
    ELSE \E i \in 1..Len(c.AdminEmails) : ToLower(c.AdminEmails[i]) = email

\* AdminAuthMiddleware.IsAdminEmail under configuration c
IsAdminEmail(c, email) ==
    IF Len(c.AdminEmails) = 0 THEN FALSE
    ELSE \E i \in 1..Len(c.AdminEmails) : ToLower(c.AdminEmails[i]) = ToLower(email)

----------------------------------------------------------------------------
(* Auth service *)

\* AuthService.generateTokens: the AuthResponse token pair
generateTokens(userID, appID, orgID, orgRole, at) ==
    [access |-> GenerateAccessToken(userID, appID, orgID, orgRole, at),
     refresh |-> GenerateRefreshToken(userID, appID, orgID, at)]

\* mutant: the u.IsActive check is missing
RefreshToken_NoActiveCheck(us, t, at) ==
    LET v == ValidateToken(t, at) IN
    IF v.err # "" THEN [error |-> "invalid refresh token", out |-> NoSession]
    ELSE IF v.claims.type # "refresh" THEN [error |-> "invalid token type", out |-> NoSession]
    ELSE IF ~UserExists(us, v.claims.user_id) THEN [error |-> "user not found", out |-> NoSession]
    ELSE [error |-> "",
          out |-> generateTokens(v.claims.user_id, v.claims.app_id,
                                 v.claims.org_id, v.claims.org_role, at)]

\* AuthService.RefreshToken: [error, out]
RefreshToken(us, t, at) ==
    LET v == ValidateToken(t, at) IN
    IF v.err # "" THEN [error |-> "invalid refresh token", out |-> NoSession]
    ELSE IF v.claims.type # "refresh" THEN [error |-> "invalid token type", out |-> NoSession]
    ELSE IF ~UserExists(us, v.claims.user_id) THEN [error |-> "user not found", out |-> NoSession]
    ELSE IF ~us[v.claims.user_id].is_active THEN [error |-> "account is disabled", out |-> NoSession]
    ELSE [error |-> "",
          out |-> generateTokens(v.claims.user_id, v.claims.app_id,
                                 v.claims.org_id, v.claims.org_role, at)]

----------------------------------------------------------------------------
(* Organization store: rows, and the local state of a service call *)

Workers == {1, 2}
OrgUsers == {1, 2, 3}
InvIds == {1}
OrgSlugs == {"s"}
Roles == {"OWNER", "ADMIN", "MEMBER"}
NullTime == -1

NoOrg == [id |-> 0, app_id |-> 0, slug |-> "", name |-> ""]
NoMember == [id |-> 0, org |-> 0, user |-> 0, role |-> ""]
NoInv == [id |-> 0, org |-> 0, invited_by |-> 0, role |-> "", token |-> 0, status |-> "",
          expires_at |-> NullTime, accepted_at |-> NullTime]
NoTxInv == [id |-> 0, status |-> "", accepted_at |-> NullTime]

ErrInvalidInvitation == "invalid or expired invitation"
ErrInvitationExpired == "invitation has expired"

\* a call of OrganizationService.Create or AcceptInvitation in flight:
\* its arguments, its local variables (org, inv), the writes of its
\* transaction that are not committed yet, and what it returned
IdleProc ==
    [op |-> "idle", pc |-> "idle", user |-> 0, token |-> 0,
     org |-> NoOrg, inv |-> NoInv, txOrg |-> NoOrg, txMember |-> NoMember,
     txInv |-> NoTxInv, err |-> "", ret |-> NoOrg]

----------------------------------------------------------------------------
(* SpecToken: the validators applied to one presented token string *)

PayloadUsers == {1, 2}
PayloadApps == {1, 2}
PayloadOrgs == {0, 1}
PayloadRoles == {"", "OWNER"}
AdminEmails == {"ops@lem"}
AdminNames == {"", "Ops"}

\* what the three issuing functions can return at time t
IssuedAt(t) ==
    {GenerateAccessToken(u, a, o, r, t) :
        u \in PayloadUsers, a \in PayloadApps, o \in PayloadOrgs, r \in PayloadRoles}
    \cup {GenerateRefreshToken(u, a, o, t) :
        u \in PayloadUsers, a \in PayloadApps, o \in PayloadOrgs}
    \cup {CreateAdminToken(e, n, t) : e \in AdminEmails, n \in AdminNames}

\* strings a client can put together from an issued token: the token itself,
\* its payload re-signed with a key of the client's own, with another HMAC
\* algorithm, or unsigned
Variants(t) ==
    {t, [t EXCEPT !.key = "X"], [t EXCEPT !.alg = "HS384"],
     [t EXCEPT !.alg = "none", !.key = ""]}

BearerOf(t) == [scheme |-> "Bearer", nparts |-> 2, tok |-> t]

UserRows == {[exists |-> FALSE, is_active |-> FALSE, password_hash |-> ""],
             [exists |-> TRUE, is_active |-> TRUE, password_hash |-> ""],
             [exists |-> TRUE, is_active |-> FALSE, password_hash |-> ""]}

InitApps == [a \in AppIds |-> [api_key |-> APIKeyOf(a), is_active |-> TRUE]]

OrgInitEmpty ==
    /\ orgs = {}
    /\ members = {}
    /\ invitations = {}
    /\ nextId = [org |-> 1, inv |-> 1]
    /\ procs = [w \in Workers |-> IdleProc]

InitToken ==
    /\ now \in Times
    /\ apps = InitApps
    /\ users \in [UserIds -> UserRows]
    /\ tok \in UNION {UNION {Variants(t) : t \in IssuedAt(i)} : i \in 0..now}
    /\ userApps = LinksAtCreation(users)
    /\ cfg = NoConfig
    /\ session = NoSession
    /\ resp = NoResp
    /\ OrgInitEmpty

\* m.ValidateToken(tok)
CallValidateToken ==
    /\ resp' = LET v == ValidateToken(tok, now) IN
               [NoResp EXCEPT !.op = "ValidateToken", !.hdr = BearerOf(tok),
                    !.status = IF v.err = "" THEN 200 ELSE 401,
                    !.error = v.err, !.claims = v.claims]
    /\ UNCHANGED <<now, apps, users, tok, userApps, cfg, session>>
    /\ UNCHANGED orgVars

\* JWTAuth on "Authorization: Bearer <tok>"
CallJWTAuth ==
    /\ resp' = LET j == JWTAuth(users, BearerOf(tok), now) IN
               [NoResp EXCEPT !.op = "JWTAuth", !.hdr = BearerOf(tok),
                    !.status = j.status, !.error = j.error,
                    !.user = j.user, !.claims = j.claims]
    /\ UNCHANGED <<now, apps, users, tok, userApps, cfg, session>>
    /\ UNCHANGED orgVars

\* s.RefreshToken(ctx, {RefreshToken: tok})
CallRefreshToken ==
    /\ resp' = LET r == RefreshToken(users, tok, now) IN
               [NoResp EXCEPT !.op = "RefreshToken", !.hdr = BearerOf(tok),
                    !.status = IF r.error = "" THEN 200 ELSE 401,
                    !.error = r.error, !.out = r.out]
    /\ UNCHANGED <<now, apps, users, tok, userApps, cfg, session>>
    /\ UNCHANGED orgVars

\* A request to a route of the adminAPI / adminProtected groups, whose only
\* middleware is RequireAdmin: the request may carry an X-API-Key and an
\* Authorization header, which no middleware of the group reads.
CallRequireAdmin(cookie, key, hdr) ==
    /\ resp' = LET r == RequireAdmin(cookie, now) IN
               [NoResp EXCEPT !.op = "RequireAdmin", !.cookie = cookie,
                    !.key = key, !.hdr = hdr,
                    !.stage = IF r.status = 200 THEN "handler" ELSE "admin",
                    !.status = r.status, !.error = r.error, !.admin = r.admin]
    /\ UNCHANGED <<now, apps, users, tok, userApps, cfg, session>>
    /\ UNCHANGED orgVars

\* Authorization headers made of the token: none, Bearer in three
\* spellings of the scheme, another scheme, and a header of three parts
HeadersOf(t) ==
    {NoHeader, BearerOf(t),
     [scheme |-> "bearer", nparts |-> 2, tok |-> t],
     [scheme |-> "BEARER", nparts |-> 2, tok |-> t],
     [scheme |-> "Basic", nparts |-> 2, tok |-> t],
     [scheme |-> "Bearer", nparts |-> 3, tok |-> t]}

\* OptionalJWTAuth on a request with the header
CallOptionalJWTAuth(hdr) ==
    /\ resp' = LET j == OptionalJWTAuth(users, hdr, now) IN
               [NoResp EXCEPT !.op = "OptionalJWTAuth", !.hdr = hdr,
                    !.stage = IF j.status = 200 THEN "handler" ELSE "jwt",
                    !.status = j.status, !.error = j.error,
                    !.user = j.user, !.claims = j.claims]
    /\ UNCHANGED <<now, apps, users, tok, userApps, cfg, session>>
    /\ UNCHANGED orgVars

\* the X-API-Key of a request to an admin route: none, or that of an active App
AdminRequestKeys == {<<>>, Key1}

NextToken ==
    \/ CallValidateToken
    \/ CallJWTAuth
    \/ CallRefreshToken
    \/ \E cookie \in {NoToken, tok}, key \in AdminRequestKeys, hdr \in {NoHeader, BearerOf(tok)} :
            CallRequireAdmin(cookie, key, hdr)
    \/ \E hdr \in HeadersOf(tok) : CallOptionalJWTAuth(hdr)

SpecToken == InitToken /\ [][NextToken]_vars

----------------------------------------------------------------------------
(* SpecAllow: the admin allowlist and the Google sign-in of the admin      *)
(* console, under a configuration drawn at start                           *)

MaxAllow == 2       \* entries of cfg.AdminEmails

\* entries ADMIN_EMAILS can hold (getEnvSlice drops empty entries)
AllowEntries == {"ops@lem", "Ops@Lem", "eve@lem"}
Allowlists == UNION {[1..n -> AllowEntries] : n \in 0..MaxAllow}

\* e-mail addresses asked about
AskedEmails == {"", "ops@lem", "OPS@LEM", "Ops@Lem", "Eve@lem", "mal@lem"}

InitAllow ==
    /\ now \in Times
    /\ apps = InitApps
    /\ users = [u \in UserIds |-> [exists |-> FALSE, is_active |-> FALSE, password_hash |-> ""]]
    /\ userApps = LinksAtCreation(users)
    /\ cfg \in {[AdminEmails |-> l] : l \in Allowlists}
    /\ tok = NoToken
    /\ session = NoSession
    /\ resp = NoResp
    /\ OrgInitEmpty

\* m.IsAdminEmail(email)
CallIsAdminEmail(email) ==
    /\ resp' = [NoResp EXCEPT !.op = "IsAdminEmail", !.email = email,
                    !.status = IF IsAdminEmail(cfg, email) THEN 200 ELSE 403]
    /\ UNCHANGED <<now, apps, users, tok, userApps, cfg, session>>
    /\ UNCHANGED orgVars

\* POST /admin/auth/google with an ID token that Google's verifier accepts
\* (verified) for the identity (email, name), or refuses
GoogleAuth(verified, email, name) ==
    /\ resp' =
         LET base == [NoResp EXCEPT !.op = "GoogleAuth", !.email = email] IN
         IF ~verified \/ email = "" THEN
             [base EXCEPT !.status = 401, !.error = "Invalid Google token"]
         ELSE IF ~IsAdminEmail(cfg, email) THEN
             [base EXCEPT !.status = 403, !.error = "Access denied"]
         ELSE [base EXCEPT !.status = 200, !.cookie = CreateAdminToken(email, name, now)]
    /\ UNCHANGED <<now, apps, users, tok, userApps, cfg, session>>
    /\ UNCHANGED orgVars

NextAllow ==
    \/ \E email \in AskedEmails : CallIsAdminEmail(email)
    \/ \E verified \in BOOLEAN, email \in AskedEmails, name \in AdminNames :
            GoogleAuth(verified, email, name)

SpecAllow == InitAllow /\ [][NextAllow]_vars

----------------------------------------------------------------------------
(* SpecGate: requests through the route groups of SetupRouter, against the *)
(* App and User tables.  A request is handled in one step; resp is the     *)
(* response to the request handled last and is cleared by every step that  *)
(* is not a request.                                                       *)

\* tokens a client of the API can present: the pair it was handed, and the
\* access token re-signed with a key of its own
ClientTokens ==
    IF session = NoSession THEN {NoToken}
    ELSE {session.access, session.refresh, [session.access EXCEPT !.key = "X"]}

ClientHeaders ==
    {NoHeader} \cup {BearerOf(t) : t \in ClientTokens}
    \cup {[scheme |-> "bearer", nparts |-> 2, tok |-> session.access],
          [scheme |-> "Basic", nparts |-> 2, tok |-> session.access],
          [scheme |-> "Bearer", nparts |-> 3, tok |-> session.access]}

InitGate ==
    /\ now = 0
    /\ apps = InitApps
    /\ users = [u \in UserIds |->
                  IF u = 1 THEN [exists |-> TRUE, is_active |-> TRUE, password_hash |-> ""]
                  ELSE [exists |-> FALSE, is_active |-> FALSE, password_hash |-> ""]]
    /\ tok = NoToken
    /\ userApps = LinksAtCreation(users)
    /\ cfg = NoConfig
    /\ session = NoSession
    /\ resp = NoResp
    /\ OrgInitEmpty

\* time passes
Tick ==
    /\ now < MaxTime
    /\ now' = now + 1
    /\ resp' = NoResp
    /\ UNCHANGED <<apps, users, tok, userApps, cfg, session>>
    /\ UNCHANGED orgVars

\* an operator flips apps.is_active (App schema field; no handler does it)
SetAppActive(a, b) ==
    /\ apps[a].is_active # b
    /\ apps' = [apps EXCEPT ![a].is_active = b]
    /\ resp' = NoResp
    /\ UNCHANGED <<now, users, tok, userApps, cfg, session>>
    /\ UNCHANGED orgVars

\* an operator flips users.is_active (User schema field; no handler does it)
SetUserActive(u, b) ==
    /\ users[u].exists
    /\ users[u].is_active # b
    /\ users' = [users EXCEPT ![u].is_active = b]
    /\ resp' = NoResp
    /\ UNCHANGED <<now, apps, tok, userApps, cfg, session>>
    /\ UNCHANGED orgVars

\* s.client.UserApp.Create().SetUserID(u).SetAppID(a).Save(ctx) under the
\* unique index on the edges (user, app): [ok, links]
CreateUserApp(links, u, a) ==
    IF links[<<u, a>>] > 0 THEN [ok |-> FALSE, links |-> links]
    ELSE [ok |-> TRUE, links |-> [links EXCEPT ![<<u, a>>] = @ + 1]]

\* AuthService.DeviceLogin(appID, deviceID): [error, out, users, links]; the
\* user of device d is the row with id d
DeviceLogin(us, links, appID, d, at) ==
    IF ~us[d].exists THEN
        LET created == [us EXCEPT ![d] = [exists |-> TRUE, is_active |-> TRUE, password_hash |-> ""]]
            ua == CreateUserApp(links, d, appID)
        IN IF ~ua.ok THEN
               [error |-> "constraint failed", out |-> NoSession, users |-> created, links |-> links]
           ELSE [error |-> "", out |-> generateTokens(d, appID, 0, "", at),
                 users |-> created, links |-> ua.links]
    ELSE IF ~us[d].is_active THEN
        [error |-> "account is disabled", out |-> NoSession, users |-> us, links |-> links]
    ELSE [error |-> "", out |-> generateTokens(d, appID, 0, "", at), users |-> us, links |-> links]

\* bcrypt.GenerateFromPassword on the passwords that occur
GenerateFromPassword(pw) ==
    CASE pw = "p" -> "bcrypt(p)"
      [] pw = "q" -> "bcrypt(q)"
      [] OTHER -> "bcrypt()"

\* bcrypt.CompareHashAndPassword(hash, pw) = nil
CompareHashAndPassword(hash, pw) == hash = GenerateFromPassword(pw)

\* AuthService.Signup(appID, {email, password}): [error, out, users, links];
\* the user of e-mail e is the row with id e
Signup(us, links, appID, e, pw, at) ==
    IF us[e].exists THEN
        [error |-> "email already registered", out |-> NoSession, users |-> us, links |-> links]
    ELSE
        LET created == [us EXCEPT ![e] = [exists |-> TRUE, is_active |-> TRUE,
                                          password_hash |-> GenerateFromPassword(pw)]]
            ua == CreateUserApp(links, e, appID)
        IN IF ~ua.ok THEN
               [error |-> "constraint failed", out |-> NoSession, users |-> created, links |-> links]
           ELSE [error |-> "", out |-> generateTokens(e, appID, 0, "", at),
                 users |-> created, links |-> ua.links]

\* AuthService.Login(appID, {email, password}): [error, out]
Login(us, appID, e, pw, at) ==
    IF ~us[e].exists THEN [error |-> "invalid credentials", out |-> NoSession]
    ELSE IF us[e].password_hash = "" THEN [error |-> "invalid credentials", out |-> NoSession]
    ELSE IF ~CompareHashAndPassword(us[e].password_hash, pw) THEN
        [error |-> "invalid credentials", out |-> NoSession]
    ELSE IF ~us[e].is_active THEN [error |-> "account is disabled", out |-> NoSession]
    ELSE [error |-> "", out |-> generateTokens(e, appID, 0, "", at)]

\* POST /auth/signup: APIKeyAuth, then AuthHandler.Signup
SignupRequest(key, e, pw) ==
    LET g == APIKeyAuth(apps, key)
        r == Signup(users, userApps, g.app, e, pw, now)
        base == [NoResp EXCEPT !.op = "signup", !.key = key]
    IN
    /\ IF g.status # 200 THEN
            /\ resp' = [base EXCEPT !.stage = "apikey", !.status = g.status, !.error = g.error]
            /\ UNCHANGED <<users, userApps, session>>
       ELSE
            /\ resp' = [base EXCEPT !.stage = "handler", !.app = g.app,
                            !.status = IF r.error = "" THEN 201 ELSE 400,
                            !.error = r.error, !.out = r.out,
                            !.user = IF r.error = "" THEN e ELSE 0]
            /\ users' = r.users
            /\ userApps' = r.links
            /\ session' = IF r.error = "" THEN r.out ELSE session
    /\ UNCHANGED <<now, apps, tok, cfg>>
    /\ UNCHANGED orgVars

\* POST /auth/login: APIKeyAuth, then AuthHandler.Login
LoginRequest(key, e, pw) ==
    LET g == APIKeyAuth(apps, key)
        r == Login(users, g.app, e, pw, now)
        base == [NoResp EXCEPT !.op = "login", !.key = key]
    IN
    /\ IF g.status # 200 THEN
            /\ resp' = [base EXCEPT !.stage = "apikey", !.status = g.status, !.error = g.error]
            /\ UNCHANGED session
       ELSE
            /\ resp' = [base EXCEPT !.stage = "handler", !.app = g.app,
                            !.status = IF r.error = "" THEN 200 ELSE 401,
                            !.error = r.error, !.out = r.out,
                            !.user = IF r.error = "" THEN e ELSE 0]
            /\ session' = IF r.error = "" THEN r.out ELSE session
    /\ UNCHANGED <<now, apps, users, tok, userApps, cfg>>
    /\ UNCHANGED orgVars

\* POST /auth/device: APIKeyAuth, then AuthHandler.DeviceLogin
DeviceLoginRequest(key, d) ==
    LET g == APIKeyAuth(apps, key)
        r == DeviceLogin(users, userApps, g.app, d, now)
        base == [NoResp EXCEPT !.op = "device", !.key = key]
    IN
    /\ IF g.status # 200 THEN
            /\ resp' = [base EXCEPT !.stage = "apikey", !.status = g.status, !.error = g.error]
            /\ UNCHANGED <<users, userApps, session>>
       ELSE
            /\ resp' = [base EXCEPT !.stage = "handler", !.app = g.app,
                            !.status = IF r.error = "" THEN 200 ELSE 401,
                            !.error = r.error, !.out = r.out,
                            !.user = IF r.error = "" THEN d ELSE 0]
            /\ users' = r.users
            /\ userApps' = r.links
            /\ session' = IF r.error = "" THEN r.out ELSE session
    /\ UNCHANGED <<now, apps, tok, cfg>>
    /\ UNCHANGED orgVars

\* mutant: refresh tokens rotate, only the refresh token handed out last
\* is accepted
RefreshRequest_Rotating(key, t) ==
    LET g == APIKeyAuth(apps, key)
        r == IF t # session.refresh THEN [error |-> "invalid refresh token", out |-> NoSession]
             ELSE RefreshToken(users, t, now)
        base == [NoResp EXCEPT !.op = "refresh", !.key = key, !.hdr = BearerOf(t)]
    IN
    /\ IF g.status # 200 THEN
            /\ resp' = [base EXCEPT !.stage = "apikey", !.status = g.status, !.error = g.error]
            /\ UNCHANGED session
       ELSE
            /\ resp' = [base EXCEPT !.stage = "handler", !.app = g.app,
                            !.status = IF r.error = "" THEN 200 ELSE 401,
                            !.error = r.error, !.out = r.out]
            /\ session' = IF r.error = "" THEN r.out ELSE session
    /\ UNCHANGED <<now, apps, users, tok, userApps, cfg>>
    /\ UNCHANGED orgVars

\* POST /auth/refresh: APIKeyAuth, then AuthHandler.RefreshToken
RefreshRequest(key, t) ==
    LET g == APIKeyAuth(apps, key)
        r == RefreshToken(users, t, now)
        base == [NoResp EXCEPT !.op = "refresh", !.key = key, !.hdr = BearerOf(t)]
    IN
    /\ IF g.status # 200 THEN
            /\ resp' = [base EXCEPT !.stage = "apikey", !.status = g.status, !.error = g.error]
            /\ UNCHANGED session
       ELSE
            /\ resp' = [base EXCEPT !.stage = "handler", !.app = g.app,
                            !.status = IF r.error = "" THEN 200 ELSE 401,
                            !.error = r.error, !.out = r.out]
            /\ session' = IF r.error = "" THEN r.out ELSE session
    /\ UNCHANGED <<now, apps, users, tok, userApps, cfg>>
    /\ UNCHANGED orgVars

\* mutant: the group registers JWTAuth before APIKeyAuth
ProtectedRequest_JWTFirst(key, hdr) ==
    LET g == APIKeyAuth(apps, key)
        j == JWTAuth(users, hdr, now)
        base == [NoResp EXCEPT !.op = "protected", !.key = key, !.hdr = hdr]
    IN
    /\ resp' =
         IF j.status # 200 THEN
            [base EXCEPT !.stage = "jwt", !.status = j.status, !.error = j.error]
         ELSE IF g.status # 200 THEN
            [base EXCEPT !.stage = "apikey", !.status = g.status, !.error = g.error]
         ELSE
            [base EXCEPT !.stage = "handler", !.app = g.app, !.status = 200,
                         !.user = j.user, !.claims = j.claims]
    /\ UNCHANGED <<now, apps, users, tok, userApps, cfg, session>>
    /\ UNCHANGED orgVars

\* any route of the protected group: APIKeyAuth, JWTAuth, then the handler
ProtectedRequest(key, hdr) ==
    LET g == APIKeyAuth(apps, key)
        j == JWTAuth(users, hdr, now)
        base == [NoResp EXCEPT !.op = "protected", !.key = key, !.hdr = hdr]
    IN
    /\ resp' =
         IF g.status # 200 THEN
            [base EXCEPT !.stage = "apikey", !.status = g.status, !.error = g.error]
         ELSE IF j.status # 200 THEN
            [base EXCEPT !.stage = "jwt", !.app = g.app, !.status = j.status, !.error = j.error]
         ELSE
            [base EXCEPT !.stage = "handler", !.app = g.app, !.status = 200,
                         !.user = j.user, !.claims = j.claims]
    /\ UNCHANGED <<now, apps, users, tok, userApps, cfg, session>>
    /\ UNCHANGED orgVars

NextGate ==
    \/ Tick
    \/ \E a \in AppIds, b \in BOOLEAN : SetAppActive(a, b)
    \/ \E u \in UserIds, b \in BOOLEAN : SetUserActive(u, b)
    \/ \E key \in RequestKeys, d \in UserIds : DeviceLoginRequest(key, d)
    \/ \E key \in RequestKeys, t \in ClientTokens : RefreshRequest(key, t)
    \/ \E key \in RequestKeys, hdr \in ClientHeaders : ProtectedRequest(key, hdr)

SpecGate == InitGate /\ [][NextGate]_vars

----------------------------------------------------------------------------
(* SpecLink: signup, password login and device login against empty User    *)
(* and UserApp tables.  User 1 is the account of the one e-mail address,   *)
(* user 2 the account of the one device.                                   *)

SignupEmails == {1}
Devices == {2}
Passwords == {"p", "q"}
LinkKeys == {<<>>, Key1, Key2}

InitLink ==
    /\ now = 0
    /\ apps = InitApps
    /\ users = [u \in UserIds |-> [exists |-> FALSE, is_active |-> FALSE, password_hash |-> ""]]
    /\ userApps = LinksAtCreation(users)
    /\ cfg = NoConfig
    /\ tok = NoToken
    /\ session = NoSession
    /\ resp = NoResp
    /\ OrgInitEmpty

NextLink ==
    \/ \E u \in UserIds, b \in BOOLEAN : SetUserActive(u, b)
    \/ \E key \in LinkKeys, e \in SignupEmails, pw \in Passwords : SignupRequest(key, e, pw)
    \/ \E key \in LinkKeys, e \in SignupEmails \cup Devices, pw \in Passwords : LoginRequest(key, e, pw)
    \/ \E key \in LinkKeys, d \in Devices : DeviceLoginRequest(key, d)

SpecLink == InitLink /\ [][NextLink]_vars

----------------------------------------------------------------------------
(* SpecOrg: the organization service against a PostgreSQL store.           *)
(* orgs, members and invitations hold the committed rows.  Create and      *)
(* AcceptInvitation run statement by statement, their transaction's writes *)
(* kept in the worker's record until Commit.  A statement that needs a row *)
(* or a unique-index entry another open transaction has written waits for  *)
(* that transaction; any statement may also fail (fail = TRUE).            *)

\* the call returns (error e, organization r): its transaction is over and
\* its locals are gone
Finish(p, e, r) ==
    [IdleProc EXCEPT !.op = p.op, !.pc = "done", !.token = p.token,
                     !.err = e, !.ret = r]

\* a request is served by the first free worker
FreeWorker(w) == procs[w].pc = "idle" /\ \A v \in Workers : v < w => procs[v].pc # "idle"

\* the id of the membership row of a pair: ids are opaque, one per pair
MemberId(orgID, userID) == (orgID - 1) * Cardinality(OrgUsers) + userID

OtherWorkers(w) == Workers \ {w}

\* GetMember(orgID, userID): the committed membership rows of the pair
GetMember(orgID, userID) == {m \in members : m.org = orgID /\ m.user = userID}

\* IsOwner / IsAdmin: false when GetMember finds no row
IsOwner(orgID, userID) ==
    \E m \in GetMember(orgID, userID) : m.role = "OWNER"
IsAdmin(orgID, userID) ==
    \E m \in GetMember(orgID, userID) : m.role \in {"OWNER", "ADMIN"}

\* time.Now().After(inv.ExpiresAt), for a non-zero ExpiresAt
Expired(inv, at) == inv.expires_at # NullTime /\ at > inv.expires_at

\* mutant: the organization is inserted through s.client, outside the
\* transaction
CreateInsertOrg_NoTx(w, appID, userID, slug, fail) ==
    /\ FreeWorker(w)
    /\ nextId.org <= MaxOrgs
    /\ LET p == [IdleProc EXCEPT !.op = "create", !.user = userID]
           o == [id |-> nextId.org, app_id |-> appID, slug |-> slug, name |-> "n"]
       IN
       IF fail \/ \E x \in orgs : x.app_id = appID /\ x.slug = slug THEN
            /\ procs' = [procs EXCEPT ![w] = Finish(p, "organization insert failed", NoOrg)]
            /\ UNCHANGED <<nextId, orgs>>
       ELSE
            /\ procs' = [procs EXCEPT ![w] =
                            [p EXCEPT !.pc = "insertMember", !.org = o, !.txOrg = o]]
            /\ nextId' = [nextId EXCEPT !.org = @ + 1]
            /\ orgs' = orgs \cup {o}
    /\ UNCHANGED <<members, invitations>>
    /\ UNCHANGED <<now, apps, users, tok, userApps, cfg, session, resp>>

\* Create, first statement: tx.Organization.Create()...Save
CreateInsertOrg(w, appID, userID, slug, fail) ==
    /\ FreeWorker(w)
    /\ nextId.org <= MaxOrgs
    /\ \A v \in OtherWorkers(w) :
          ~(procs[v].txOrg.app_id = appID /\ procs[v].txOrg.slug = slug)
    /\ LET p == [IdleProc EXCEPT !.op = "create", !.user = userID]
           o == [id |-> nextId.org, app_id |-> appID, slug |-> slug, name |-> "n"]
       IN
       IF fail \/ \E x \in orgs : x.app_id = appID /\ x.slug = slug THEN
            /\ procs' = [procs EXCEPT ![w] = Finish(p, "organization insert failed", NoOrg)]
            /\ UNCHANGED nextId
       ELSE
            /\ procs' = [procs EXCEPT ![w] =
                            [p EXCEPT !.pc = "insertMember", !.org = o, !.txOrg = o]]
            /\ nextId' = [nextId EXCEPT !.org = @ + 1]
    /\ UNCHANGED <<orgs, members, invitations>>
    /\ UNCHANGED <<now, apps, users, tok, userApps, cfg, session, resp>>

\* Create, second statement: tx.OrganizationMember.Create()...Save
CreateInsertMember(w, fail) ==
    /\ procs[w].op = "create" /\ procs[w].pc = "insertMember"
    /\ procs' = [procs EXCEPT ![w] =
                    IF fail THEN Finish(@, "member insert failed", NoOrg)
                    ELSE [@ EXCEPT !.pc = "commit",
                                   !.txMember = [id |-> MemberId(procs[w].org.id, procs[w].user),
                                                 org |-> procs[w].org.id,
                                                 user |-> procs[w].user, role |-> "OWNER"]]]
    /\ UNCHANGED <<orgs, members, invitations, nextId>>
    /\ UNCHANGED <<now, apps, users, tok, userApps, cfg, session, resp>>

\* Create, tx.Commit()
CreateCommit(w, fail) ==
    /\ procs[w].op = "create" /\ procs[w].pc = "commit"
    /\ IF fail THEN
            /\ procs' = [procs EXCEPT ![w] = Finish(@, "commit failed", NoOrg)]
            /\ UNCHANGED <<orgs, members>>
       ELSE
            /\ orgs' = orgs \cup {procs[w].txOrg}
            /\ members' = members \cup {procs[w].txMember}
            /\ procs' = [procs EXCEPT ![w] = Finish(@, "", procs[w].org)]
    /\ UNCHANGED <<invitations, nextId>>
    /\ UNCHANGED <<now, apps, users, tok, userApps, cfg, session, resp>>

\* AdminHandler.CreateOrganization: slug check, then one insert
AdminCreateOrganization(appID, slug) ==
    /\ nextId.org <= MaxOrgs
    /\ \A v \in Workers :
          ~(procs[v].txOrg.app_id = appID /\ procs[v].txOrg.slug = slug)
    /\ ~\E x \in orgs : x.app_id = appID /\ x.slug = slug
    /\ orgs' = orgs \cup {[id |-> nextId.org, app_id |-> appID, slug |-> slug, name |-> "n"]}
    /\ nextId' = [nextId EXCEPT !.org = @ + 1]
    /\ UNCHANGED <<members, invitations, procs>>
    /\ UNCHANGED <<now, apps, users, tok, userApps, cfg, session, resp>>

\* OrganizationHandler.CreateInvitation: IsAdmin, then the insert of
\* OrganizationService.CreateInvitation; the token is fresh
CreateInvitation(orgID, userID, role) ==
    /\ IsAdmin(orgID, userID)
    /\ nextId.inv \in InvIds
    /\ invitations' = invitations \cup
          {[id |-> nextId.inv, org |-> orgID, invited_by |-> userID, role |-> role,
            token |-> nextId.inv,
            status |-> "PENDING", expires_at |-> now + InviteTTL,
            accepted_at |-> NullTime]}
    /\ nextId' = [nextId EXCEPT !.inv = @ + 1]
    /\ UNCHANGED <<orgs, members, procs>>
    /\ UNCHANGED <<now, apps, users, tok, userApps, cfg, session, resp>>

\* the row lock of an invitation is held by an open transaction that has
\* updated it
RowLocked(w, invID) == \E v \in OtherWorkers(w) : procs[v].txInv.id = invID

\* UPDATE organization_invitations SET ... WHERE id = invID
UpdateInvitation(invs, invID, st, acc) ==
    {IF i.id = invID THEN [i EXCEPT !.status = st, !.accepted_at = acc] ELSE i : i \in invs}

\* mutant: the query filters on the token only
PendingByToken_AnyStatus(token) == {i \in invitations : i.token = token}

\* the query by token and status of AcceptInvitation
PendingByToken(token) == {i \in invitations : i.token = token /\ i.status = "PENDING"}

\* AcceptInvitation, the query
AcceptQuery(w, userID, token) ==
    /\ FreeWorker(w)
    /\ LET p == [IdleProc EXCEPT !.op = "accept", !.user = userID, !.token = token]
           found == PendingByToken(token)
       IN
       procs' = [procs EXCEPT ![w] =
                    IF found = {} THEN Finish(p, ErrInvalidInvitation, NoOrg)
                    ELSE LET i == CHOOSE x \in found : TRUE IN
                         [p EXCEPT !.pc = "check", !.inv = i,
                                   !.org = CHOOSE o \in orgs : o.id = i.org]]
    /\ UNCHANGED <<orgs, members, invitations, nextId>>
    /\ UNCHANGED <<now, apps, users, tok, userApps, cfg, session, resp>>

\* AcceptInvitation, expiry passed: the row is set EXPIRED by id (outside
\* any transaction); the error of Save is dropped, so when the update
\* fails the row keeps its status and the call still returns the error
AcceptExpire(w, fail) ==
    /\ procs[w].op = "accept" /\ procs[w].pc = "check"
    /\ Expired(procs[w].inv, now)
    /\ ~RowLocked(w, procs[w].inv.id)
    /\ invitations' = IF fail THEN invitations
                      ELSE {IF i.id = procs[w].inv.id THEN [i EXCEPT !.status = "EXPIRED"] ELSE i
                               : i \in invitations}
    /\ procs' = [procs EXCEPT ![w] = Finish(@, ErrInvitationExpired, NoOrg)]
    /\ UNCHANGED <<orgs, members, nextId>>
    /\ UNCHANGED <<now, apps, users, tok, userApps, cfg, session, resp>>

\* mutant: SetRole is missing, the column takes its default
AcceptInsertMember_DefaultRole(w, fail) ==
    /\ procs[w].op = "accept" /\ procs[w].pc = "check"
    /\ ~Expired(procs[w].inv, now)
    /\ \A v \in OtherWorkers(w) :
          ~(procs[v].txMember.org = procs[w].inv.org /\ procs[v].txMember.user = procs[w].user)
    /\ procs' = [procs EXCEPT ![w] =
                    IF fail \/ GetMember(procs[w].inv.org, procs[w].user) # {} THEN
                        Finish(@, "member insert failed", NoOrg)
                    ELSE [@ EXCEPT !.pc = "updateInv",
                                   !.txMember = [id |-> MemberId(procs[w].inv.org, procs[w].user),
                                                 org |-> procs[w].inv.org,
                                                 user |-> procs[w].user,
                                                 role |-> "MEMBER"]]]
    /\ UNCHANGED <<orgs, members, invitations, nextId>>
    /\ UNCHANGED <<now, apps, users, tok, userApps, cfg, session, resp>>

\* mutant: the membership table has no unique index on (organization, user)
AcceptInsertMember_NoUniqueIndex(w, fail) ==
    /\ procs[w].op = "accept" /\ procs[w].pc = "check"
    /\ ~Expired(procs[w].inv, now)
    /\ procs' = [procs EXCEPT ![w] =
                    IF fail THEN Finish(@, "member insert failed", NoOrg)
                    ELSE [@ EXCEPT !.pc = "updateInv",
                                   !.txMember = [id |-> MemberId(procs[w].inv.org, procs[w].user),
                                                 org |-> procs[w].inv.org,
                                                 user |-> procs[w].user,
                                                 role |-> procs[w].inv.role]]]
    /\ UNCHANGED <<orgs, members, invitations, nextId>>
    /\ UNCHANGED <<now, apps, users, tok, userApps, cfg, session, resp>>

\* AcceptInvitation, first statement of the transaction:
\* tx.OrganizationMember.Create()...Save, under the unique index on
\* (organization, user)
AcceptInsertMember(w, fail) ==
    /\ procs[w].op = "accept" /\ procs[w].pc = "check"
    /\ ~Expired(procs[w].inv, now)
    /\ \A v \in OtherWorkers(w) :
          ~(procs[v].txMember.org = procs[w].inv.org /\ procs[v].txMember.user = procs[w].user)
    /\ procs' = [procs EXCEPT ![w] =
                    IF fail \/ GetMember(procs[w].inv.org, procs[w].user) # {} THEN
                        Finish(@, "member insert failed", NoOrg)
                    ELSE [@ EXCEPT !.pc = "updateInv",
                                   !.txMember = [id |-> MemberId(procs[w].inv.org, procs[w].user),
                                                 org |-> procs[w].inv.org,
                                                 user |-> procs[w].user,
                                                 role |-> procs[w].inv.role]]]
    /\ UNCHANGED <<orgs, members, invitations, nextId>>
    /\ UNCHANGED <<now, apps, users, tok, userApps, cfg, session, resp>>

\* mutant: the invitation is updated through s.client, outside the
\* transaction
AcceptUpdateInv_NoTx(w, fail) ==
    /\ procs[w].op = "accept" /\ procs[w].pc = "updateInv"
    /\ ~RowLocked(w, procs[w].inv.id)
    /\ procs' = [procs EXCEPT ![w] =
                    IF fail THEN Finish(@, "invitation update failed", NoOrg)
                    ELSE [@ EXCEPT !.pc = "commit",
                                   !.txInv = [id |-> procs[w].inv.id, status |-> "ACCEPTED",
                                              accepted_at |-> now]]]
    /\ invitations' = IF fail THEN invitations
                      ELSE UpdateInvitation(invitations, procs[w].inv.id, "ACCEPTED", now)
    /\ UNCHANGED <<orgs, members, nextId>>
    /\ UNCHANGED <<now, apps, users, tok, userApps, cfg, session, resp>>

\* AcceptInvitation, second statement: tx.OrganizationInvitation.UpdateOne(inv)
AcceptUpdateInv(w, fail) ==
    /\ procs[w].op = "accept" /\ procs[w].pc = "updateInv"
    /\ ~RowLocked(w, procs[w].inv.id)
    /\ procs' = [procs EXCEPT ![w] =
                    IF fail THEN Finish(@, "invitation update failed", NoOrg)
                    ELSE [@ EXCEPT !.pc = "commit",
                                   !.txInv = [id |-> procs[w].inv.id, status |-> "ACCEPTED",
                                              accepted_at |-> now]]]
    /\ UNCHANGED <<orgs, members, invitations, nextId>>
    /\ UNCHANGED <<now, apps, users, tok, userApps, cfg, session, resp>>

\* AcceptInvitation, tx.Commit()
AcceptCommit(w, fail) ==
    /\ procs[w].op = "accept" /\ procs[w].pc = "commit"
    /\ IF fail THEN
            /\ procs' = [procs EXCEPT ![w] = Finish(@, "commit failed", NoOrg)]
            /\ UNCHANGED <<members, invitations>>
       ELSE
            /\ members' = members \cup {procs[w].txMember}
            /\ invitations' = UpdateInvitation(invitations, procs[w].txInv.id,
                                               procs[w].txInv.status, procs[w].txInv.accepted_at)
            /\ procs' = [procs EXCEPT ![w] = Finish(@, "", procs[w].org)]
    /\ UNCHANGED <<orgs, nextId>>
    /\ UNCHANGED <<now, apps, users, tok, userApps, cfg, session, resp>>

\* OrganizationHandler.RevokeInvitation: IsAdmin on the path's organization,
\* then OrganizationService.RevokeInvitation(invID)
RevokeInvitation(orgID, userID, invID) ==
    /\ IsAdmin(orgID, userID)
    /\ \E i \in invitations : i.id = invID
    /\ \A v \in Workers : procs[v].txInv.id # invID
    /\ invitations' = {IF i.id = invID THEN [i EXCEPT !.status = "REVOKED"] ELSE i
                          : i \in invitations}
    /\ UNCHANGED <<orgs, members, nextId, procs>>
    /\ UNCHANGED <<now, apps, users, tok, userApps, cfg, session, resp>>

\* the call has returned to its handler and the response is written
Return(w) ==
    /\ procs[w].pc = "done"
    /\ procs' = [procs EXCEPT ![w] = IdleProc]
    /\ UNCHANGED <<orgs, members, invitations, nextId>>
    /\ UNCHANGED <<now, apps, users, tok, userApps, cfg, session, resp>>

\* tokens presented to AcceptInvitation: those handed out, and 0 for a
\* token no invitation has
InviteTokens == {0} \cup InvIds

InitOrg ==
    /\ now = 0
    /\ apps = InitApps
    /\ users = [u \in UserIds |-> [exists |-> TRUE, is_active |-> TRUE, password_hash |-> ""]]
    /\ tok = NoToken
    /\ userApps = LinksAtCreation(users)
    /\ cfg = NoConfig
    /\ session = NoSession
    /\ resp = NoResp
    /\ OrgInitEmpty

\* SpecOrg: organizations being created, by the API and by the admin console
NextOrg ==
    \/ \E w \in Workers, a \in AppIds, u \in OrgUsers, sl \in OrgSlugs, f \in BOOLEAN :
          CreateInsertOrg(w, a, u, sl, f)
    \/ \E w \in Workers, f \in BOOLEAN : CreateInsertMember(w, f)
    \/ \E w \in Workers, f \in BOOLEAN : CreateCommit(w, f)
    \/ \E a \in AppIds, sl \in OrgSlugs : AdminCreateOrganization(a, sl)
    \/ \E w \in Workers : Return(w)

SpecOrg == InitOrg /\ [][NextOrg]_vars

\* SpecInvite: invitations of an organization that user 1 has created
\* through Create
FoundedOrg == [id |-> 1, app_id |-> 1, slug |-> "s", name |-> "n"]

InitInvite ==
    /\ now = 0
    /\ apps = InitApps
    /\ users = [u \in UserIds |-> [exists |-> TRUE, is_active |-> TRUE, password_hash |-> ""]]
    /\ tok = NoToken
    /\ userApps = LinksAtCreation(users)
    /\ cfg = NoConfig
    /\ session = NoSession
    /\ resp = NoResp
    /\ orgs = {FoundedOrg}
    /\ members = {[id |-> MemberId(1, 1), org |-> 1, user |-> 1, role |-> "OWNER"]}
    /\ invitations = {}
    /\ nextId = [org |-> 2, inv |-> 1]
    /\ procs = [w \in Workers |-> IdleProc]

NextInvite ==
    \/ Tick
    \/ \E o \in 1..MaxOrgs, u \in OrgUsers, r \in Roles : CreateInvitation(o, u, r)
    \/ \E w \in Workers, u \in OrgUsers, t \in InviteTokens : AcceptQuery(w, u, t)
    \/ \E w \in Workers, f \in BOOLEAN : AcceptExpire(w, f)
    \/ \E w \in Workers, f \in BOOLEAN : AcceptInsertMember(w, f)
    \/ \E w \in Workers, f \in BOOLEAN : AcceptUpdateInv(w, f)
    \/ \E w \in Workers, f \in BOOLEAN : AcceptCommit(w, f)
    \/ \E o \in 1..MaxOrgs, u \in OrgUsers, i \in InvIds : RevokeInvitation(o, u, i)
    \/ \E w \in Workers : Return(w)

SpecInvite == InitInvite /\ [][NextInvite]_vars

\* SpecTeam: the invitations of organization 1 once user 2 has joined it as
\* ADMIN; user 3 is not a member
InitTeam ==
    /\ now = 0
    /\ apps = InitApps
    /\ users = [u \in UserIds |-> [exists |-> TRUE, is_active |-> TRUE, password_hash |-> ""]]
    /\ tok = NoToken
    /\ userApps = LinksAtCreation(users)
    /\ cfg = NoConfig
    /\ session = NoSession
    /\ resp = NoResp
    /\ orgs = {FoundedOrg}
    /\ members = {[id |-> MemberId(1, 1), org |-> 1, user |-> 1, role |-> "OWNER"],
                  [id |-> MemberId(1, 2), org |-> 1, user |-> 2, role |-> "ADMIN"]}
    /\ invitations = {}
    /\ nextId = [org |-> 2, inv |-> 1]
    /\ procs = [w \in Workers |-> IdleProc]

SpecTeam == InitTeam /\ [][NextInvite]_vars

----------------------------------------------------------------------------
(* SpecManage: the handlers of the organization routes, each request       *)
(* handled in one step.  APIKeyAuth and JWTAuth have attached the app      *)
(* (appID) and the user (userID) before the handler runs; the handlers    *)
(* that write do not look at the app.                                      *)

OrgNames == {"n", "m"}

\* the response of an organization handler
OrgResp(op, appID, userID, orgID, status, error, body) ==
    [NoResp EXCEPT !.op = op, !.stage = "handler", !.app = appID, !.user = userID,
                   !.org = orgID, !.status = status, !.error = error, !.body = body]

\* OrganizationService.ListByUser(userID, appID): the organizations of the
\* user's membership rows
ListByUser(userID, appID) ==
    {o \in orgs : \E m \in members : m.user = userID /\ m.org = o.id}

\* OrganizationService.GetByID(orgID)
GetByID(orgID) == {o \in orgs : o.id = orgID}

\* GET /organizations
ListRequest(appID, userID) ==
    /\ resp' = OrgResp("list", appID, userID, 0, 200, "", ListByUser(userID, appID))
    /\ UNCHANGED <<now, apps, users, tok, userApps, cfg, session>>
    /\ UNCHANGED orgVars

\* GET /organizations/:org_id
GetRequest(appID, orgID) ==
    /\ resp' = IF GetByID(orgID) = {} THEN
                    OrgResp("get", appID, 0, orgID, 404, "organization not found", {})
               ELSE OrgResp("get", appID, 0, orgID, 200, "", GetByID(orgID))
    /\ UNCHANGED <<now, apps, users, tok, userApps, cfg, session>>
    /\ UNCHANGED orgVars

\* PUT /organizations/:org_id
UpdateRequest(userID, orgID, name) ==
    /\ IF ~IsAdmin(orgID, userID) THEN
            /\ resp' = OrgResp("update", 0, userID, orgID, 403, "permission denied", {})
            /\ UNCHANGED orgs
       ELSE IF GetByID(orgID) = {} THEN
            /\ resp' = OrgResp("update", 0, userID, orgID, 500, "organization not found", {})
            /\ UNCHANGED orgs
       ELSE
            /\ orgs' = {IF o.id = orgID THEN [o EXCEPT !.name = name] ELSE o : o \in orgs}
            /\ resp' = OrgResp("update", 0, userID, orgID, 200, "",
                               {[o EXCEPT !.name = name] : o \in GetByID(orgID)})
    /\ UNCHANGED <<members, invitations, nextId, procs>>
    /\ UNCHANGED <<now, apps, users, tok, userApps, cfg, session>>

\* DELETE /organizations/:org_id.  The action of the foreign keys of the
\* member and invitation rows on the delete is fixed by the migration, not
\* by the schema: fk is "cascade" (the rows go with the organization) or
\* "restrict" (the delete fails while a row refers to the organization).
DeleteRequest(userID, orgID, fk) ==
    /\ IF ~IsOwner(orgID, userID) THEN
            /\ resp' = OrgResp("delete", 0, userID, orgID, 403,
                               "only owner can delete organization", {})
            /\ UNCHANGED <<orgs, members, invitations>>
       ELSE IF fk = "restrict" /\ ((\E m \in members : m.org = orgID)
                                    \/ (\E i \in invitations : i.org = orgID)) THEN
            /\ resp' = OrgResp("delete", 0, userID, orgID, 500, "delete failed", {})
            /\ UNCHANGED <<orgs, members, invitations>>
       ELSE
            /\ orgs' = {o \in orgs : o.id # orgID}
            /\ members' = {m \in members : m.org # orgID}
            /\ invitations' = {i \in invitations : i.org # orgID}
            /\ resp' = OrgResp("delete", 0, userID, orgID, 200, "", {})
    /\ UNCHANGED <<nextId, procs>>
    /\ UNCHANGED <<now, apps, users, tok, userApps, cfg, session>>

\* DELETE /organizations/:org_id/members/:member_id
RemoveMemberRequest(userID, orgID, memberID) ==
    /\ IF ~IsAdmin(orgID, userID) THEN
            /\ resp' = OrgResp("removeMember", 0, userID, orgID, 403, "permission denied", {})
            /\ UNCHANGED members
       ELSE IF ~\E m \in members : m.id = memberID THEN
            /\ resp' = OrgResp("removeMember", 0, userID, orgID, 500, "member not found", {})
            /\ UNCHANGED members
       ELSE
            /\ members' = {m \in members : m.id # memberID}
            /\ resp' = OrgResp("removeMember", 0, userID, orgID, 200, "", {})
    /\ UNCHANGED <<orgs, invitations, nextId, procs>>
    /\ UNCHANGED <<now, apps, users, tok, userApps, cfg, session>>

\* mutant: the handler asks IsAdmin where it should ask IsOwner
UpdateMemberRoleRequest_AdminGate(userID, orgID, memberID, role) ==
    /\ IF ~IsAdmin(orgID, userID) THEN
            /\ resp' = OrgResp("updateMemberRole", 0, userID, orgID, 403,
                               "only owner can change roles", {})
            /\ UNCHANGED members
       ELSE IF ~\E m \in members : m.id = memberID THEN
            /\ resp' = OrgResp("updateMemberRole", 0, userID, orgID, 500, "member not found", {})
            /\ UNCHANGED members
       ELSE
            /\ members' = {IF m.id = memberID THEN [m EXCEPT !.role = role] ELSE m : m \in members}
            /\ resp' = OrgResp("updateMemberRole", 0, userID, orgID, 200, "", {})
    /\ UNCHANGED <<orgs, invitations, nextId, procs>>
    /\ UNCHANGED <<now, apps, users, tok, userApps, cfg, session>>

\* PATCH /organizations/:org_id/members/:member_id/role
UpdateMemberRoleRequest(userID, orgID, memberID, role) ==
    /\ IF ~IsOwner(orgID, userID) THEN
            /\ resp' = OrgResp("updateMemberRole", 0, userID, orgID, 403,
                               "only owner can change roles", {})
            /\ UNCHANGED members
       ELSE IF ~\E m \in members : m.id = memberID THEN
            /\ resp' = OrgResp("updateMemberRole", 0, userID, orgID, 500, "member not found", {})
            /\ UNCHANGED members
       ELSE
            /\ members' = {IF m.id = memberID THEN [m EXCEPT !.role = role] ELSE m : m \in members}
            /\ resp' = OrgResp("updateMemberRole", 0, userID, orgID, 200, "", {})
    /\ UNCHANGED <<orgs, invitations, nextId, procs>>
    /\ UNCHANGED <<now, apps, users, tok, userApps, cfg, session>>

\* POST /organizations/:org_id/invitations
CreateInvitationRequest(userID, orgID, role) ==
    /\ IF ~IsAdmin(orgID, userID) THEN
            /\ resp' = OrgResp("createInvitation", 0, userID, orgID, 403, "permission denied", {})
            /\ UNCHANGED <<invitations, nextId>>
       ELSE
            /\ nextId.inv \in InvIds
            /\ invitations' = invitations \cup
                  {[id |-> nextId.inv, org |-> orgID, invited_by |-> userID, role |-> role,
                    token |-> nextId.inv,
                    status |-> "PENDING", expires_at |-> now + InviteTTL,
                    accepted_at |-> NullTime]}
            /\ nextId' = [nextId EXCEPT !.inv = @ + 1]
            /\ resp' = OrgResp("createInvitation", 0, userID, orgID, 201, "", {})
    /\ UNCHANGED <<orgs, members, procs>>
    /\ UNCHANGED <<now, apps, users, tok, userApps, cfg, session>>

\* POST /organizations/:org_id/invitations/:inv_id/revoke
RevokeInvitationRequest(userID, orgID, invID) ==
    /\ IF ~IsAdmin(orgID, userID) THEN
            /\ resp' = OrgResp("revokeInvitation", 0, userID, orgID, 403, "permission denied", {})
            /\ UNCHANGED invitations
       ELSE IF ~\E i \in invitations : i.id = invID THEN
            /\ resp' = OrgResp("revokeInvitation", 0, userID, orgID, 500,
                               "invitation not found", {})
            /\ UNCHANGED invitations
       ELSE
            /\ invitations' = {IF i.id = invID THEN [i EXCEPT !.status = "REVOKED"] ELSE i
                                  : i \in invitations}
            /\ resp' = OrgResp("revokeInvitation", 0, userID, orgID, 200, "", {})
    /\ UNCHANGED <<orgs, members, nextId, procs>>
    /\ UNCHANGED <<now, apps, users, tok, userApps, cfg, session>>

\* user 1 has created organization 1 under app 1 and user 2 has joined it
\* as ADMIN; user 3 is not a member
InitManage ==
    /\ now = 0
    /\ apps = InitApps
    /\ users = [u \in UserIds |-> [exists |-> TRUE, is_active |-> TRUE, password_hash |-> ""]]
    /\ tok = NoToken
    /\ userApps = LinksAtCreation(users)
    /\ cfg = NoConfig
    /\ session = NoSession
    /\ resp = NoResp
    /\ orgs = {FoundedOrg}
    /\ members = {[id |-> MemberId(1, 1), org |-> 1, user |-> 1, role |-> "OWNER"],
                  [id |-> MemberId(1, 2), org |-> 1, user |-> 2, role |-> "ADMIN"]}
    /\ invitations = {}
    /\ nextId = [org |-> 2, inv |-> 1]
    /\ procs = [w \in Workers |-> IdleProc]

FKActions == {"cascade", "restrict"}
OrgIds == 1..MaxOrgs
\* member ids of a request: those of the rows of organization 1, and the
\* id of user 3, which no row has
MemberIds == {MemberId(1, u) : u \in OrgUsers}

NextManage ==
    \/ \E a \in AppIds, u \in OrgUsers : ListRequest(a, u)
    \/ \E a \in AppIds, o \in OrgIds : GetRequest(a, o)
    \/ \E u \in OrgUsers, o \in OrgIds, n \in OrgNames : UpdateRequest(u, o, n)
    \/ \E u \in OrgUsers, o \in OrgIds, fk \in FKActions : DeleteRequest(u, o, fk)
    \/ \E u \in OrgUsers, o \in OrgIds, m \in MemberIds :
          RemoveMemberRequest(u, o, m)
    \/ \E u \in OrgUsers, o \in OrgIds, m \in MemberIds, r \in Roles :
          UpdateMemberRoleRequest(u, o, m, r)
    \/ \E u \in OrgUsers, o \in OrgIds, r \in Roles :
          CreateInvitationRequest(u, o, r)
    \/ \E u \in OrgUsers, o \in OrgIds, i \in InvIds :
          RevokeInvitationRequest(u, o, i)

SpecManage == InitManage /\ [][NextManage]_vars

----------------------------------------------------------------------------
(* SpecCross: the member and invitation handlers with two organizations.   *)
(* User 1 has created organization 1; user 2 has created organization 2    *)
(* under App 2, user 3 has joined it as MEMBER and one invitation to it is *)
(* pending.                                                                *)

SecondOrg == [id |-> 2, app_id |-> 2, slug |-> "s", name |-> "n"]

InitCross ==
    /\ now = 0
    /\ apps = InitApps
    /\ users = [u \in UserIds |-> [exists |-> TRUE, is_active |-> TRUE, password_hash |-> ""]]
    /\ tok = NoToken
    /\ userApps = LinksAtCreation(users)
    /\ cfg = NoConfig
    /\ session = NoSession
    /\ resp = NoResp
    /\ orgs = {FoundedOrg, SecondOrg}
    /\ members = {[id |-> MemberId(1, 1), org |-> 1, user |-> 1, role |-> "OWNER"],
                  [id |-> MemberId(2, 2), org |-> 2, user |-> 2, role |-> "OWNER"],
                  [id |-> MemberId(2, 3), org |-> 2, user |-> 3, role |-> "MEMBER"]}
    /\ invitations = {[id |-> 1, org |-> 2, invited_by |-> 2, role |-> "MEMBER", token |-> 1,
                       status |-> "PENDING", expires_at |-> InviteTTL,
                       accepted_at |-> NullTime]}
    /\ nextId = [org |-> 3, inv |-> 2]
    /\ procs = [w \in Workers |-> IdleProc]

\* :org_id and :member_id of a request path
CrossOrgIds == {1, 2}
CrossMemberIds == {MemberId(o, u) : o \in CrossOrgIds, u \in OrgUsers}

NextCross ==
    \/ \E u \in OrgUsers, o \in CrossOrgIds, m \in CrossMemberIds :
          RemoveMemberRequest(u, o, m)
    \/ \E u \in OrgUsers, o \in CrossOrgIds, m \in CrossMemberIds, r \in Roles :
          UpdateMemberRoleRequest(u, o, m, r)
    \/ \E u \in OrgUsers, o \in CrossOrgIds, i \in InvIds :
          RevokeInvitationRequest(u, o, i)

SpecCross == InitCross /\ [][NextCross]_vars

----------------------------------------------------------------------------
(* SpecRefresh: a client that keeps the refresh token it was handed first  *)
(* (tok) and goes on presenting it, next to the pair it was handed last    *)
(* (session), while time passes and users are disabled and enabled.        *)

\* the role of the user's membership row in the organization, "" without one
CurrentRole(orgID, userID) ==
    IF GetMember(orgID, userID) = {} THEN ""
    ELSE (CHOOSE m \in GetMember(orgID, userID) : TRUE).role

\* the memberships of organization 1: user 1 its OWNER, user 2 an ADMIN
TeamMembers ==
    {[id |-> MemberId(1, 1), org |-> 1, user |-> 1, role |-> "OWNER"],
     [id |-> MemberId(1, 2), org |-> 1, user |-> 2, role |-> "ADMIN"]}

\* the pair is one generateTokens returns at time 0, for a user, an app and
\* no organization or organization 1
InitRefresh ==
    /\ now = 0
    /\ apps = InitApps
    /\ users = [u \in UserIds |-> [exists |-> TRUE, is_active |-> TRUE, password_hash |-> ""]]
    /\ orgs = {FoundedOrg}
    /\ members = TeamMembers
    /\ invitations = {}
    /\ nextId = [org |-> 2, inv |-> 1]
    /\ procs = [w \in Workers |-> IdleProc]
    /\ \E u \in UserIds, a \in AppIds, o \in PayloadOrgs :
          session = generateTokens(u, a, o, CurrentRole(o, u), 0)
    /\ tok = session.refresh
    /\ userApps = LinksAtCreation(users)
    /\ cfg = NoConfig
    /\ resp = NoResp

NextRefresh ==
    \/ Tick
    \/ \E u \in UserIds, b \in BOOLEAN : SetUserActive(u, b)
    \/ \E a \in AppIds, t \in {tok, session.refresh} : RefreshRequest(APIKeyOf(a), t)
    \/ \E a \in AppIds, t \in {tok, session.access} : ProtectedRequest(APIKeyOf(a), BearerOf(t))

SpecRefresh == InitRefresh /\ [][NextRefresh]_vars

----------------------------------------------------------------------------
(* Properties of the token validators (SpecToken) *)

IssuedAccess(t) ==
    \E u \in PayloadUsers, a \in PayloadApps, o \in PayloadOrgs, r \in PayloadRoles, i \in Times :
        t = GenerateAccessToken(u, a, o, r, i)
IssuedRefresh(t) ==
    \E u \in PayloadUsers, a \in PayloadApps, o \in PayloadOrgs, i \in Times :
        t = GenerateRefreshToken(u, a, o, i)
IssuedAdmin(t) ==
    \E e \in AdminEmails, n \in AdminNames, i \in Times : t = CreateAdminToken(e, n, i)
Unexpired(t) == now < t.payload.exp
ActiveUser(id) == UserExists(users, id) /\ users[id].is_active

\* C1 (kind isolation): an unexpired token issued by GenerateRefreshToken is
\* rejected by JWTAuth with nothing attached, and an unexpired token issued
\* by GenerateAccessToken is rejected by RefreshToken, which issues nothing,
\* whatever user, app, organization and role the token names.
C1_KindIsolation ==
    /\ (resp.op = "JWTAuth" /\ IssuedRefresh(tok) /\ Unexpired(tok)) =>
          (resp.status = 401 /\ resp.user = 0 /\ resp.claims = NoClaims)
    /\ (resp.op = "RefreshToken" /\ IssuedAccess(tok) /\ Unexpired(tok)) =>
          (resp.status = 401 /\ resp.out = NoSession)

\* a refresh token of an active user, in time, turned away by JWTAuth for
\* its kind alone
C1_Witness ==
    /\ resp.op = "JWTAuth"
    /\ IssuedRefresh(tok) /\ Unexpired(tok)
    /\ ActiveUser(tok.payload.user_id)
    /\ resp.error = "Invalid token type"

\* C2 (schema isolation): an unexpired admin-session token is rejected by
\* ValidateToken, JWTAuth and RefreshToken, and an unexpired end-user token
\* (access or refresh) is rejected by RequireAdmin.
C2_SchemaIsolation ==
    /\ (IssuedAdmin(tok) /\ Unexpired(tok)
            /\ resp.op \in {"ValidateToken", "JWTAuth", "RefreshToken"}) =>
          resp.status # 200
    /\ ((IssuedAccess(tok) \/ IssuedRefresh(tok)) /\ Unexpired(tok)
            /\ resp.op = "RequireAdmin") =>
          resp.status # 200

----------------------------------------------------------------------------
(* Properties of the middleware chain (SpecGate) *)

GateOps == {"device", "refresh", "protected"}
ActiveAppsWithKey(k) == {a \in AppIds : apps[a].api_key = k /\ apps[a].is_active}
InactiveAppsWithKey(k) == {a \in AppIds : apps[a].api_key = k /\ ~apps[a].is_active}
NothingPastGate(r) ==
    /\ r.stage = "apikey"
    /\ r.app = 0 /\ r.user = 0 /\ r.claims = NoClaims /\ r.out = NoSession

\* C3 (tenant gate): a request gets past APIKeyAuth exactly when its key
\* equals the api_key of an active app, and that app is the one attached;
\* an empty key or a key of no app is answered 401, the key of an inactive
\* app 403, and in both cases nothing is attached and nothing further runs.
C3_TenantGate ==
    resp.op \in GateOps =>
        /\ (resp.stage # "apikey") <=> (ActiveAppsWithKey(resp.key) # {})
        /\ (resp.stage # "apikey") => (resp.app \in ActiveAppsWithKey(resp.key))
        /\ (resp.key = <<>> \/ \A a \in AppIds : apps[a].api_key # resp.key) =>
              (resp.status = 401 /\ NothingPastGate(resp))
        /\ (InactiveAppsWithKey(resp.key) # {}) =>
              (resp.status = 403 /\ NothingPastGate(resp))

\* a key that is a proper prefix of both api keys is answered 401
C3_Witness ==
    /\ session # NoSession
    /\ resp.op = "protected"
    /\ resp.key = <<"k">>
    /\ resp.status = 401
    /\ resp.hdr = BearerOf(session.access)
    /\ JWTAuth(users, resp.hdr, now).status = 200

\* C4 (tenant deactivation): while an app's is_active is false, every
\* request that bears its key is answered 403 at the APIKeyAuth step with
\* nothing attached, whatever Authorization header or refresh token it
\* carries.
C4_Deactivation ==
    [][\A a \in AppIds :
          (~apps'[a].is_active /\ resp'.op \in GateOps /\ resp'.key = apps'[a].api_key) =>
              (resp'.status = 403 /\ NothingPastGate(resp'))]_vars

\* the access token handed out while the app was active would pass JWTAuth,
\* and the request is answered 403 after the deactivation
C4_Witness ==
    /\ session # NoSession
    /\ resp.op = "protected"
    /\ resp.status = 403
    /\ resp.error = "App is disabled"
    /\ resp.hdr = BearerOf(session.access)
    /\ resp.key = apps[session.access.payload.app_id].api_key
    /\ JWTAuth(users, resp.hdr, now).status = 200

WellFormedBearer(h) == h.nparts = 2 /\ ToLower(h.scheme) = "bearer"
GoodAccessToken(t) ==
    /\ t.alg \in HMACAlgs /\ t.key = JWTSecretKey
    /\ now < t.payload.exp
    /\ t.payload.type = "access"

\* C5 (required session): past APIKeyAuth, a protected request reaches its
\* handler only with a well-formed Bearer header whose token is correctly
\* signed, unexpired, of kind access and names an existing active user; the
\* user attached is the one the token names; a token good in all but its
\* user being inactive is answered 403, every other failure 401.
C5_RequiredSession ==
    (resp.op = "protected" /\ resp.stage # "apikey") =>
        LET t == resp.hdr.tok
            good == WellFormedBearer(resp.hdr) /\ GoodAccessToken(t)
        IN
        /\ (resp.stage = "handler") <=> (good /\ ActiveUser(t.payload.user_id))
        /\ (resp.stage = "handler") =>
              /\ resp.status = 200
              /\ resp.user = t.payload.user_id
              /\ resp.claims.user_id = t.payload.user_id
              /\ resp.claims.type = "access"
        /\ (resp.stage = "jwt") =>
              /\ resp.user = 0 /\ resp.claims = NoClaims
              /\ resp.status =
                    IF good /\ UserExists(users, t.payload.user_id) THEN 403 ELSE 401

\* the user was set inactive after the token was issued: 403
C5_Witness ==
    /\ session # NoSession
    /\ resp.op = "protected"
    /\ resp.stage = "jwt"
    /\ resp.status = 403
    /\ resp.hdr.tok = session.access
    /\ ~users[session.access.payload.user_id].is_active

----------------------------------------------------------------------------
(* Properties of organization creation (SpecOrg) *)

\* the step in which call w returns
Returns(w, op) == procs[w].pc # "done" /\ procs'[w].pc = "done" /\ procs'[w].op = op

\* C6 (atomic creation): while Create is between its inserts and its
\* commit the organization row is not in the store; the commit puts the
\* organization and its creator's OWNER membership there in one step; and a
\* Create that returns an error (either insert or the commit failed) leaves
\* the store as it was, with no row of the organization it had inserted.
C6_AtomicCreate ==
    [][\A w \in Workers :
          /\ (procs'[w].op = "create" /\ procs'[w].pc \in {"insertMember", "commit"}) =>
                ~\E x \in orgs' : x.id = procs'[w].org.id
          /\ (Returns(w, "create") /\ procs'[w].err = "") =>
                /\ orgs' = orgs \cup {procs[w].org}
                /\ procs[w].org \notin orgs
                /\ \E m \in members' \ members :
                      m.org = procs[w].org.id /\ m.user = procs[w].user /\ m.role = "OWNER"
          /\ (Returns(w, "create") /\ procs'[w].err # "") =>
                /\ orgs' = orgs /\ members' = members
                /\ ~\E x \in orgs' : x.id = procs[w].org.id
                /\ ~\E m \in members' : procs[w].org.id # 0 /\ m.org = procs[w].org.id
      ]_vars

\* the membership insert has failed after the organization insert went
\* through, and the store holds no organization
C6_Witness ==
    \E w \in Workers :
        /\ procs[w].op = "create" /\ procs[w].pc = "done"
        /\ procs[w].err = "member insert failed"
        /\ nextId.org > 1
        /\ orgs = {} /\ members = {}

\* C7 (owner at creation): whenever an organization row appears in the
\* store, an OWNER membership of that organization is in the store with it.
C7_OwnerAtCreation ==
    [][\A x \in orgs' \ orgs :
          \E m \in members' : m.org = x.id /\ m.role = "OWNER"]_vars

----------------------------------------------------------------------------
(* Properties of invitations (SpecInvite) *)

\* the step in which worker w runs the query of AcceptInvitation
Queries(w) == procs[w].pc = "idle" /\ procs'[w].op = "accept"

\* the step in which AcceptInvitation of worker w commits
AcceptCommits(w) ==
    /\ procs[w].op = "accept" /\ procs[w].pc = "commit"
    /\ procs'[w].pc = "done" /\ procs'[w].err = ""

\* C8 (acceptance): AcceptInvitation finds a PENDING invitation by its
\* token and does not report it expired before its expiry; when it commits,
\* exactly one membership row is added, of the invitation's organization,
\* the calling user and the invitation's role; the invitation becomes
\* ACCEPTED with accepted_at set; that organization is returned; no other
\* row of any table changes.
C8_AcceptEffect ==
    [][\A w \in Workers :
          /\ (Queries(w) /\ PendingByToken(procs'[w].token) # {}) =>
                procs'[w].pc = "check"
          /\ (procs[w].op = "accept" /\ procs[w].pc = "check"
                    /\ ~Expired(procs[w].inv, now)) =>
                procs'[w].err # ErrInvitationExpired
          /\ AcceptCommits(w) =>
                LET i == procs[w].inv IN
                /\ \E m \in members' \ members :
                      /\ members' = members \cup {m}
                      /\ m.org = i.org /\ m.user = procs[w].user /\ m.role = i.role
                /\ \E j \in invitations' :
                      /\ j.id = i.id
                      /\ j.status = "ACCEPTED" /\ j.accepted_at # NullTime
                      /\ j.org = i.org /\ j.role = i.role /\ j.token = i.token
                      /\ j.expires_at = i.expires_at
                      /\ {x \in invitations' : x.id # i.id} = {x \in invitations : x.id # i.id}
                /\ orgs' = orgs
                /\ procs'[w].ret \in orgs /\ procs'[w].ret.id = i.org
      ]_vars

\* user 2 has accepted the invitation of organization 1
C8_Witness ==
    \E w \in Workers, i \in invitations, m \in members :
        /\ procs[w].op = "accept" /\ procs[w].pc = "done" /\ procs[w].err = ""
        /\ procs[w].ret = FoundedOrg
        /\ i.token = procs[w].token /\ i.status = "ACCEPTED" /\ i.accepted_at # NullTime
        /\ m.org = i.org /\ m.user = 2 /\ m.role = i.role
        /\ Cardinality(members) = 2

\* C9 (single use, sequential): AcceptInvitation called with a token whose
\* invitation is ACCEPTED, REVOKED or EXPIRED returns the error it returns
\* for a token of no invitation, returns no organization, and changes no
\* membership and no invitation.
C9_SingleUseSequential ==
    [][\A w \in Workers :
          Queries(w) =>
             LET t == procs'[w].token
                 stale == \E i \in invitations :
                             i.token = t /\ i.status \in {"ACCEPTED", "REVOKED", "EXPIRED"}
                 unknown == ~\E i \in invitations : i.token = t
             IN (stale \/ unknown) =>
                   /\ procs'[w].pc = "done"
                   /\ procs'[w].err = ErrInvalidInvitation
                   /\ procs'[w].ret = NoOrg
                   /\ members' = members /\ invitations' = invitations
      ]_vars

\* a second accept of an accepted token has been turned away
C9_Witness ==
    \E w \in Workers, i \in invitations :
        /\ procs[w].op = "accept" /\ procs[w].pc = "done"
        /\ procs[w].err = ErrInvalidInvitation
        /\ i.token = procs[w].token /\ i.status = "ACCEPTED"
        /\ Cardinality(members) = 2

\* C10 (single use, concurrent): an AcceptInvitation that commits, adding
\* its membership and writing ACCEPTED, never finds the invitation already
\* ACCEPTED by another call: the transition is made once, and one
\* membership comes of a token.
C10_SingleUseConcurrent ==
    [][\A w \in Workers :
          AcceptCommits(w) =>
             ~\E i \in invitations : i.id = procs[w].inv.id /\ i.status = "ACCEPTED"
      ]_vars

\* the committed row of invitation id in a table
InvRow(invs, id) == CHOOSE i \in invs : i.id = id

\* C11 (expired invitation): AcceptInvitation that finds its PENDING
\* invitation past expires_at adds no membership, leaves the row EXPIRED
\* and returns the expired error; and no invitation row is ACCEPTED with an
\* accepted_at later than its expires_at.
C11_ExpiredInvitation ==
    [][/\ \A w \in Workers :
            (procs[w].op = "accept" /\ procs[w].pc = "check" /\ procs'[w].pc = "done"
                /\ Expired(procs[w].inv, now)
                /\ InvRow(invitations, procs[w].inv.id).status = "PENDING") =>
               /\ procs'[w].err = ErrInvitationExpired
               /\ procs'[w].ret = NoOrg
               /\ members' = members
               /\ InvRow(invitations', procs[w].inv.id).status = "EXPIRED"
       /\ \A j \in invitations' :
            j.status = "ACCEPTED" => j.accepted_at <= j.expires_at
      ]_vars

\* C12 (status machine): the status of an invitation row changes only from
\* PENDING, to ACCEPTED, REVOKED or EXPIRED; a row that is ACCEPTED, REVOKED
\* or EXPIRED keeps its status.
C12_StatusMachine ==
    [][\A i \in invitations, j \in invitations' :
          (i.id = j.id /\ i.status # j.status) =>
              (i.status = "PENDING" /\ j.status \in {"ACCEPTED", "REVOKED", "EXPIRED"})
      ]_vars

\* the errors of AcceptInvitation that come from a statement of its
\* transaction
TxErrors == {"member insert failed", "invitation update failed", "commit failed"}

\* C13 (atomic acceptance): the statements of AcceptInvitation's
\* transaction change no committed row before the commit; an invitation row
\* becomes ACCEPTED only in the step that also puts the membership of the
\* accepting call into the store; and a call whose insert, update or commit
\* fails leaves memberships and invitations as they were.
C13_AtomicAccept ==
    [][/\ \A w \in Workers :
            /\ (procs[w].op = "accept" /\ procs'[w].pc # procs[w].pc
                    /\ procs'[w].pc \in {"updateInv", "commit"}) =>
                  (members' = members /\ invitations' = invitations)
            /\ (Returns(w, "accept") /\ procs'[w].err \in TxErrors) =>
                  (members' = members /\ invitations' = invitations)
       /\ \A i \in invitations, j \in invitations' :
            (i.id = j.id /\ i.status # "ACCEPTED" /\ j.status = "ACCEPTED") =>
                \E w \in Workers :
                    /\ AcceptCommits(w)
                    /\ procs[w].inv.id = j.id
                    /\ procs[w].txMember \in members'
                    /\ procs[w].txMember.org = j.org
      ]_vars

\* the update of the invitation has failed after the membership insert
\* went through: no membership was added and the invitation is PENDING
C13_Witness ==
    \E w \in Workers, i \in invitations :
        /\ procs[w].op = "accept" /\ procs[w].pc = "done"
        /\ procs[w].err = "invitation update failed"
        /\ i.token = procs[w].token /\ i.status = "PENDING"
        /\ Cardinality(members) = 1

----------------------------------------------------------------------------
(* Properties of the organization handlers (SpecManage) *)

OwnerGated == {"delete", "updateMemberRole"}
AdminGated == {"update", "removeMember", "createInvitation", "revokeInvitation"}
StoreUnchanged ==
    orgs' = orgs /\ members' = members /\ invitations' = invitations
\* the roles the user holds in the organization, before the request
RolesOf(orgID, userID) == {m.role : m \in {x \in members : x.org = orgID /\ x.user = userID}}

\* C14 (role gating): a delete or a role change touches the store only when
\* the caller is OWNER of the organization of the path, an update, a member
\* removal, an invitation or a revocation only when the caller is OWNER or
\* ADMIN there; every other caller, a non-member included, is answered 403
\* and the store is as it was.
C14_RoleGating ==
    [][(resp'.op \in OwnerGated \cup AdminGated) =>
          LET held == RolesOf(resp'.org, resp'.user)
              allowed == IF resp'.op \in OwnerGated THEN "OWNER" \in held
                         ELSE held \cap {"OWNER", "ADMIN"} # {}
          IN
          /\ ~allowed => (resp'.status = 403 /\ StoreUnchanged)
          /\ ~StoreUnchanged => (allowed /\ resp'.status \in {200, 201})
      ]_vars

\* an ADMIN of the organization has asked for a role change and got 403
C14_Witness ==
    /\ resp.op = "updateMemberRole"
    /\ resp.status = 403
    /\ \E m \in members : m.org = resp.org /\ m.user = resp.user /\ m.role = "ADMIN"

\* C15 (tenant scoping of reads): Get of an organization that is not of the
\* app of the request is answered 404 with no organization in the body, and
\* List returns organizations of the app of the request only.
C15_TenantScopedReads ==
    /\ (resp.op = "get" /\ \A o \in orgs : o.id = resp.org => o.app_id # resp.app) =>
          (resp.status = 404 /\ resp.body = {})
    /\ (resp.op = "list") => \A o \in resp.body : o.app_id = resp.app

----------------------------------------------------------------------------
(* Properties of refresh (SpecToken, SpecRefresh) *)

\* the token passes the signature and expiry checks and is of kind refresh
GoodRefreshToken(t, at) ==
    /\ t.alg \in HMACAlgs /\ t.key = JWTSecretKey
    /\ at < t.payload.exp
    /\ t.payload.type = "refresh"

SameSubject(t, p) ==
    /\ t.payload.user_id = p.user_id
    /\ t.payload.app_id = p.app_id
    /\ t.payload.org_id = p.org_id

\* C16 (refresh): RefreshToken succeeds exactly when the token is signed
\* with the secret, unexpired, of kind refresh and names an existing active
\* user; for a missing user it fails "user not found", for an inactive one
\* "account is disabled"; a failure issues nothing; a success issues an
\* access and a refresh token, valid now, with the user_id, app_id and
\* org_id of the presented token.
C16_Refresh ==
    resp.op = "RefreshToken" =>
        LET p == tok.payload
            good == GoodRefreshToken(tok, now)
        IN
        /\ (resp.status = 200) <=> (good /\ ActiveUser(p.user_id))
        /\ (good /\ ~UserExists(users, p.user_id)) => resp.error = "user not found"
        /\ (good /\ UserExists(users, p.user_id) /\ ~users[p.user_id].is_active) =>
              resp.error = "account is disabled"
        /\ (resp.status # 200) => resp.out = NoSession
        /\ (resp.status = 200) =>
              /\ resp.out.access.payload.type = "access"
              /\ resp.out.refresh.payload.type = "refresh"
              /\ SameSubject(resp.out.access, p) /\ SameSubject(resp.out.refresh, p)
              /\ ValidateToken(resp.out.access, now).err = ""
              /\ ValidateToken(resp.out.refresh, now).err = ""

\* a refresh token good in itself, of a user that is disabled, is refused
C16_Witness ==
    /\ resp.op = "RefreshToken"
    /\ IssuedRefresh(tok) /\ Unexpired(tok)
    /\ resp.error = "account is disabled"
    /\ resp.out = NoSession

C18_NoRotation ==
    [][/\ (resp'.op = "refresh" /\ resp'.stage = "handler"
              /\ GoodRefreshToken(resp'.hdr.tok, now')
              /\ users'[resp'.hdr.tok.payload.user_id].is_active) =>
             resp'.status = 200
       /\ (resp'.op = "protected" /\ resp'.stage # "apikey"
              /\ resp'.hdr.tok.payload.type = "access"
              /\ now' < resp'.hdr.tok.payload.exp
              /\ users'[resp'.hdr.tok.payload.user_id].is_active) =>
             resp'.status = 200
       /\ (resp'.op = "refresh" /\ resp'.status = 200) =>
             /\ RefreshToken(users', resp'.hdr.tok, now').error = ""
             /\ (now' < session.refresh.payload.exp) =>
                   RefreshToken(users', session.refresh, now').error = ""
             /\ (now' < session.access.payload.exp) =>
                   JWTAuth(users', BearerOf(session.access), now').status = 200
      ]_vars

\* the token kept from time 0 has been refreshed at a later time, when the
\* pair handed out last is another one, and is still accepted
C18_Witness ==
    /\ resp.op = "refresh" /\ resp.status = 200
    /\ resp.hdr.tok = tok
    /\ tok.payload.iat < now
    /\ session.refresh # tok
    /\ RefreshToken(users, tok, now).error = ""

----------------------------------------------------------------------------
(* Properties of the codec and of OptionalJWTAuth (SpecToken) *)

\* the claim set, issued at time i with lifetime ttl
IssuedClaims(u, a, o, r, kind, i, ttl) ==
    [user_id |-> u, app_id |-> a, org_id |-> o, org_role |-> r, type |-> kind,
     exp |-> i + ttl, iat |-> i]

\* C19 (round trip and expiry): ValidateToken applied to a token the
\* issuing functions made at time i returns the claims it was made of at
\* every time up to i + ttl, that time included, and the expired error at
\* every later time; with the payload signed by another key it fails.
C19_RoundTrip ==
    resp.op = "ValidateToken" =>
        \A u \in PayloadUsers, a \in PayloadApps, o \in PayloadOrgs, r \in PayloadRoles, i \in Times :
            /\ (tok = GenerateAccessToken(u, a, o, r, i)) =>
                  IF now <= i + AccessTTL
                  THEN resp.error = ""
                        /\ resp.claims = IssuedClaims(u, a, o, r, "access", i, AccessTTL)
                  ELSE resp.error = "token is expired"
            /\ (tok = GenerateRefreshToken(u, a, o, i)) =>
                  IF now <= i + RefreshTTL
                  THEN resp.error = ""
                        /\ resp.claims = IssuedClaims(u, a, o, "", "refresh", i, RefreshTTL)
                  ELSE resp.error = "token is expired"
            /\ (tok \in {[GenerateAccessToken(u, a, o, r, i) EXCEPT !.key = "X"],
                         [GenerateRefreshToken(u, a, o, i) EXCEPT !.key = "X"]}) =>
                  resp.error # ""

\* C20 (optional session): OptionalJWTAuth lets every request through to
\* the handler; a user and claims are attached exactly when the header is
\* a well-formed Bearer header whose token is signed with the secret,
\* unexpired, of kind access and names an existing active user, and they
\* are that user and the token's claims; otherwise nothing is attached.
C20_OptionalSession ==
    resp.op = "OptionalJWTAuth" =>
        LET t == resp.hdr.tok
            good == /\ WellFormedBearer(resp.hdr)
                    /\ GoodAccessToken(t)
                    /\ ActiveUser(t.payload.user_id)
        IN
        /\ resp.status = 200 /\ resp.stage = "handler" /\ resp.error = ""
        /\ good => /\ resp.user = t.payload.user_id
                   /\ MarshalTokenClaims(resp.claims) = t.payload
        /\ ~good => (resp.user = 0 /\ resp.claims = NoClaims)

\* a signed, unexpired access token of a disabled user: the request goes
\* on with nothing attached
C20_Witness ==
    /\ resp.op = "OptionalJWTAuth"
    /\ resp.hdr = BearerOf(tok)
    /\ IssuedAccess(tok) /\ Unexpired(tok)
    /\ UserExists(users, tok.payload.user_id) /\ ~users[tok.payload.user_id].is_active
    /\ resp.status = 200 /\ resp.user = 0

----------------------------------------------------------------------------
(* Properties of the admin routes (SpecToken) *)

\* the cookie holds a token signed with the server's secret, in time, whose
\* type claim reads "admin_session"
GoodAdminCookie(c) ==
    /\ c # NoToken
    /\ c.key = JWTSecretKey
    /\ now < c.payload.exp
    /\ c.payload.type = "admin_session"

\* C21 (admin-only policy): a request to an admin route reaches the handler,
\* with an admin identity attached, exactly when its admin_session cookie
\* holds a correctly signed, unexpired token of type "admin_session"; the
\* identity is then the email and name of that token; every other request is
\* answered 401 with nothing attached.  The X-API-Key and the Authorization
\* header of the request play no part in the outcome.
C21_AdminOnly ==
    resp.op = "RequireAdmin" =>
        /\ (resp.status = 200) <=> GoodAdminCookie(resp.cookie)
        /\ resp.status = 200 =>
              /\ resp.stage = "handler"
              /\ resp.admin.email = DecodeStr(resp.cookie.payload.email)
              /\ resp.admin.name = DecodeStr(resp.cookie.payload.name)
        /\ resp.status # 200 =>
              /\ resp.status = 401
              /\ resp.stage = "admin"
              /\ resp.admin = NoAdminClaims

\* an admin request admitted on its cookie alone, with no API key and no
\* Authorization header
C21_Witness ==
    /\ resp.op = "RequireAdmin"
    /\ resp.status = 200
    /\ resp.key = <<>> /\ resp.hdr = NoHeader
    /\ resp.admin.email \in AdminEmails

----------------------------------------------------------------------------
(* Properties of the admin allowlist (SpecAllow) *)

\* e-mail addresses that differ in letter case only
FoldClasses == {{"ops@lem", "Ops@Lem", "OPS@LEM"}, {"eve@lem", "Eve@lem"}, {"mal@lem"}, {""}}
EqualFold(a, b) == \E k \in FoldClasses : a \in k /\ b \in k
Allowlisted(email) == \E i \in DOMAIN cfg.AdminEmails : EqualFold(cfg.AdminEmails[i], email)

\* C22 (allowlist, fail closed): IsAdminEmail(email) is true exactly when
\* the e-mail equals an entry of cfg.AdminEmails up to letter case; with no
\* entries it is false for every e-mail, the empty one included; and the
\* Google sign-in sets an admin cookie only for an allowlisted e-mail.
C22_Allowlist ==
    /\ resp.op = "IsAdminEmail" =>
          /\ (resp.status = 200) <=> Allowlisted(resp.email)
          /\ cfg.AdminEmails = <<>> => resp.status # 200
    /\ resp.op = "GoogleAuth" =>
          /\ resp.status = 200 => Allowlisted(resp.email)
          /\ resp.status # 200 => resp.cookie = NoToken

\* an address in capitals found on a list that holds it in small letters
C22_Witness ==
    /\ resp.op = "IsAdminEmail"
    /\ resp.email = "OPS@LEM"
    /\ cfg.AdminEmails = <<"eve@lem", "ops@lem">>
    /\ resp.status = 200

----------------------------------------------------------------------------
(* Properties of the UserApp table (SpecLink) *)

\* C23 (UserTenantLink): when a signup, password login or device login under
\* the App of the request's API key has succeeded for a user, a UserApp row
\* of that user and that App exists; and no (user, app) pair ever has two
\* UserApp rows.
C23_UserTenantLink ==
    /\ (resp.op \in {"signup", "login", "device"} /\ resp.stage = "handler"
            /\ resp.status \in {200, 201}) =>
          userApps[<<resp.user, resp.app>>] >= 1
    /\ \A p \in DOMAIN userApps : userApps[p] <= 1

----------------------------------------------------------------------------
(* Properties of the membership table (SpecInvite) *)

OneRowPerPair ==
    \A o \in 1..MaxOrgs, u \in OrgUsers : Cardinality(GetMember(o, u)) <= 1

\* the insert of AcceptInvitation by worker w, for a user who has a
\* membership row in the invitation's organization
InsertByMember(w) ==
    /\ procs[w].op = "accept" /\ procs[w].pc = "check"
    /\ ~Expired(procs[w].inv, now)
    /\ GetMember(procs[w].inv.org, procs[w].user) # {}
    /\ procs'[w].pc # procs[w].pc

\* C24 (membership uniqueness): the membership table never holds two rows
\* for one (organization, user) pair; and when AcceptInvitation is called by
\* a user who already has a row in the invitation's organization, its insert
\* fails: the call returns an error and the table is left as it was.
C24_MembershipUnique ==
    /\ []OneRowPerPair
    /\ [][\A w \in Workers :
            InsertByMember(w) =>
                /\ procs'[w].pc = "done"
                /\ procs'[w].err = "member insert failed"
                /\ members' = members
                /\ invitations' = invitations]_vars

\* two calls with the same token have returned, one with the organization
\* and one refused at the insert, and the invitation has added one row
C24_Witness ==
    /\ \E w \in Workers, v \in Workers :
          /\ procs[w].pc = "done" /\ procs[w].op = "accept" /\ procs[w].err = ""
          /\ procs[v].pc = "done" /\ procs[v].op = "accept"
          /\ procs[v].err = "member insert failed"
          /\ procs[v].token = procs[w].token
    /\ Cardinality(members) = 2

----------------------------------------------------------------------------
(* Properties of the signing method (SpecToken) *)

\* C25 (algorithm check): a token whose header names another algorithm than
\* HS256, the one of SignedString, is refused by ValidateToken, JWTAuth,
\* RefreshToken and RequireAdmin, whatever its claims and its signature.
C25_AlgorithmCheck ==
    /\ (resp.op \in {"ValidateToken", "JWTAuth", "RefreshToken"} /\ tok.alg # "HS256") =>
          resp.status # 200
    /\ (resp.op = "RequireAdmin" /\ resp.cookie # NoToken /\ resp.cookie.alg # "HS256") =>
          resp.status # 200

----------------------------------------------------------------------------
(* Properties of the tenant of a session (SpecGate) *)

\* C26 (token-to-tenant binding): a request through APIKeyAuth and JWTAuth
\* reaches its handler only when the app_id of its access token is the id of
\* the App found for its API key.
C26_TenantBinding ==
    (resp.op = "protected" /\ resp.stage = "handler") =>
        resp.claims.app_id = resp.app

----------------------------------------------------------------------------
(* Properties of the scope of a mutation (SpecCross) *)

\* C27 (cross-organization scoping): a RemoveMember, UpdateMemberRole or
\* RevokeInvitation request removes or changes only membership rows and
\* invitations of the organization named in its path, the one for which the
\* caller's role was checked.
C27_PathScoped ==
    [][resp'.op \in {"removeMember", "updateMemberRole", "revokeInvitation"} =>
          /\ \A m \in members \ members' : m.org = resp'.org
          /\ \A i \in invitations \ invitations' : i.org = resp'.org]_vars

----------------------------------------------------------------------------
(* Properties of revocation (SpecInvite) *)

\* an invitation that went from PENDING to REVOKED: it is REVOKED and was
\* never accepted
RevokedPending(i) == i.status = "REVOKED" /\ i.accepted_at = NullTime

\* C28 (revocation is final): once RevokeInvitation has set a PENDING
\* invitation REVOKED, no AcceptInvitation with its token sets it ACCEPTED
\* or commits a membership, whether the call started after the revocation
\* or was running when it happened.
C28_RevocationFinal ==
    [][/\ \A i \in invitations, j \in invitations' :
            (i.id = j.id /\ RevokedPending(i)) => j.status # "ACCEPTED"
       /\ \A w \in Workers :
            AcceptCommits(w) =>
                ~\E i \in invitations : i.id = procs[w].inv.id /\ RevokedPending(i)
      ]_vars

----------------------------------------------------------------------------
(* Properties of the OWNER role (SpecTeam, SpecManage) *)

\* C29 (no owner escalation): a membership row with role OWNER is added to
\* an organization only on behalf of one of its OWNERs: when AcceptInvitation
\* adds one, the invitation was created by a user who is OWNER of the
\* organization, never by a user who is only ADMIN.
C29_NoOwnerEscalation ==
    [][\A m \in members' \ members :
          m.role = "OWNER" =>
              \E i \in invitations :
                  /\ i.org = m.org /\ i.role = "OWNER"
                  /\ IsOwner(i.org, i.invited_by)]_vars

\* C30 (owner preservation): every organization in the table, each created
\* through Create with its OWNER, keeps at least one membership row with
\* role OWNER, whatever members are removed and roles changed through the
\* handlers.
C30_OwnerPreserved ==
    \A o \in orgs : \E m \in members : m.org = o.id /\ m.role = "OWNER"

====
